---- MODULE Spec2Model ----
(***************************************************************************)
(* Model of the MapleStory Worlds metadata downloader:                     *)
(*   steps/0-find_last_pages.py  boundary search (phase 1 + phase 2)       *)
(*   steps/1-collect.py          parallel page walk, retry pass, merge     *)
(*   steps/2-enrich.py           fetch workers + single ordered writer     *)
(* Each stage is a separate process of the repository, so each has its own *)
(* specification over the shared variable list; the variables of the other *)
(* stages keep their initial value.                                        *)
(***************************************************************************)
EXTENDS Integers, Sequences, FiniteSets, TLC

\* ---------------------------------------------------------------- bounds
\* Largest first_empty handed directly to phase 2 (SpecPhase2).
MaxFirstEmpty == 6
\* Largest true last page of the fake service in SpecPhase2.
MaxTruth == 6
\* The example partition of SpecSearch: pages 1..ExampleLastPage hold data.
ExampleLastPage == 42
\* Largest --workers of a collection run.
MaxWorkers == 2
\* Largest number of true pages of a partition of the fake listing service.
MaxTruePages == 2
\* Largest number of input rows of an enrichment run.
MaxRows == 3
\* Largest number of fetch workers of an enrichment run.
MaxFetchWorkers == 2
\* discovery run: pages with data in a partition
MaxPagesWithData == 2
\* throttle: threads that send requests, clock ticks, requests granted,
\* the largest --delay (in clock ticks)
MaxThreads == 2
MaxClock == 5
MaxGrants == 3
MaxDelay == 2
\* collection: largest last_page hint of a boundary table gone stale
MaxStaleHint == 11
\* enrichment: input rows in the runs checked for termination
MaxTermRows == 2
\* Requests followed after the start of a stage.
MaxRequests == 2
\* Phase 1 on its own: true last pages and hints up to this many strides.
MaxStrides == 2
\* Phase 2 on a range wide enough for max_outer outer iterations.
MaxOuterPages == 22

\* ------------------------------------------------------ program constants
PROBE_STEP == 500
CONFIRM_ATTEMPTS == 3
max_outer == 20
DEFAULT_MAX_PAGE == 8750
MAX_ITEMS_PER_PAGE == 150
SKEPTICAL_PAGE_BUFFER == 10
RETRY_PAGE_BUFFER == 20
MAX_PAGE_ATTEMPTS == 2
INDEFINITE_RETRY_MAX_ATTEMPTS == 5

VARIABLES
    \* ---- boundary search (0-find_last_pages.py) ----
    truth,          \* fake service: pages 1..truth hold data, later pages are empty
    flaky,          \* fake service: may a page with data come back empty
    max_page,       \* max_page estimate handed to phase 1 / phase 2
    spc,            \* position in main / phase1 / phase2
    probe,          \* phase 1: page p of the probing loop
    first_empty,    \* phase 1 result
    low, high,      \* phase 2 binary search range
    candidate,      \* phase 2 candidate last page
    outer_iters,    \* phase 2 outer loop counter
    attempt,        \* phase 2 confirmation attempt (0-based)
    returned,       \* "running" | "None" | "page" : what phase 2 returned
    last,           \* the page phase 2 returned (when returned = "page")
    confNonEmpty,   \* pages whose confirming fetch in this call was non-empty
    confEmpty,      \* pages whose confirming fetch in this call was empty
    c_prev,         \* confirmation: count of the last fetch of candidate
    c_next,         \* confirmation: count of the last fetch of candidate + 1
    \* ---- collection (1-collect.py) ----
    \* ---- the output CSV of the running stage (1-collect.py, 2-enrich.py) ----
    out_file,       \* the output CSV: [exists, rows]
    prior_out,      \* out_file as it was when the run started
    svc,            \* fake listing service: partition -> sequence of true pages
    fetch_fails,    \* fake listing service: the requests <<partition, page>> that may fail or come back without RUIDs
    run,            \* 1 in a run, 2 in a second run over the output of the first
    workers,        \* --workers
    last_pages,     \* last_pages.csv: partition -> last_page
    segments_list,  \* partitions to walk, in walk order
    pages_per_category, \* 1 with --test, 0 (None) otherwise
    cpc,            \* position in main: "idle" "walk" "retry" "merge" "replace" "done"
    seg_idx,        \* index in segments_list of the partition being walked
    next_page,      \* shared page cursor of the walk (page of the sequential walk)
    segment_done,   \* shared "segment done" flag
    wpc,            \* worker -> "claim" "fetching" "found" "rows" "mark" "returned"
    wpage,          \* worker -> page it claimed and has in hand (0: none)
    wfound,         \* worker -> [n, ids]: the RUIDs found on its page, those not yet committed
    pages_done,     \* sequential walk: pages that yielded records
    retry_later,    \* sequential walk: pages to retry of the partition
    seen,           \* {(ruid, category, subcategory)}
    seen_per_ruid_cat, \* {(ruid, category)}
    temp_rows,      \* rows appended to the temp file of new rows
    temp_final,     \* rows written to the merge temp file
    global_retry_list, \* (category, subcategory, page, attempts), in list order
    max_page_with_content, \* partition -> largest page that returned RUIDs
    retry_queue,    \* deque of the global retry pass
    attempts_made,  \* (category, subcategory, page) of a ticket -> fetches of the page so far
    gave_up,        \* tickets dropped after their last allowed attempt yielded nothing
    failed_csv,     \* failed_indefinite_retry.csv: [exists, rows]
    indefinite_retry_set, \* {(category, subcategory, page)}
    failed_indefinite_segments, \* partitions for the side report
    \* ---- history of the collection run (not program state) ----
    settled,        \* pages of the current partition committed or given a ticket
    fetched_empty,  \* pages of the current partition whose walk fetch failed or had no RUID
                    \* (whatever the walk then did with the page)
    ended,          \* {[seg, page, count]}: pages treated as final page
    yielded,        \* {(ruid, partition)} returned by some fetch of the run
    \* ---- enrichment (2-enrich.py) ----
    rows,           \* input rows, in input order
    force,          \* --force
    enrich_workers, \* workers = max(1, min(args.workers, 256))
    output_rows_dict, \* key -> row of the existing output file
    already_enriched, \* keys of the existing output that have Date/Format/Tags
    unique_needed,  \* RUIDs to fetch, in order of first appearance
    mpc,            \* position in main: "idle" "start" "preflight" "seq" "pool" "join" "done"
    next_index,     \* shared cursor into unique_needed (0-based, as in the code)
    fwpc,           \* fetch worker -> "take" "fetch" "returned"
    fwi,            \* fetch worker -> index i it took
    result_queue,   \* queue.Queue of fetch results and the sentinel
    enriched,       \* writer: dict ruid -> info, as <<ruid, info>> in insertion order
    next_row,       \* writer: number of input rows written
    temp_out,       \* writer: rows written to the temp file
    wrpc,           \* writer thread: "off" "get" "flush" "replace" "end"
    fetch_calls,    \* RUID -> number of calls of fetch_one made for it in the run
    \* ---- discovery run (0-find_last_pages.py main) ----
    table,          \* last_pages.csv: [exists, rows], a row is <<cid, sid, last_page>>
    prior_table,    \* table as it was when the run started
    args,           \* command line: [test, all_only, category, subcategory]
    page_counts,    \* fake service: partition -> number of pages with data
    segments,       \* main: the partitions to process
    dseg_idx,       \* main: index of the partition being processed
    existing,       \* main: dict (cid, sid) -> last_page
    results,        \* main: list of <<cid, sid, last_page>>
    dpc,            \* main: "idle" "start" "segment" "searching" "write" "done" "exit"
    \* ---- the request throttle of a collection run (1-collect.py) ----
    clock,          \* time.monotonic()
    delay,          \* --delay: the interval handed to _throttle_request
    last_request_time,  \* last_request_time[0]
    tpc,            \* per requesting thread: "call" "sleep" "fetch"
    wake,           \* per requesting thread: the time its sleep ends
    grants,         \* the send times granted so far, in the order of the lock
    \* ---- the start of a stage: main up to its first request ----
    stage,          \* which script runs: 0 find_last_pages, 1 collect, 2 enrich; -1 none
    ifwt,           \* TRUE iff some source of the run supplies the _ifwt token
    table_state,    \* last_pages.csv as collect finds it: "ok" "missing" "invalid" "entry_missing"
    input_state,    \* the input CSV as enrich finds it: "ok" "missing" "bad_schema"
    no_segments,    \* TRUE iff the partition filters of find_last_pages select nothing
    csv_mode,       \* collect: TRUE iff --out is given (csv_mode = bool(args.out))
    cookies,        \* collect: the --cookies file: "none" (not given) "missing" "ok"
    supc,           \* position in main: "idle" and then the check about to be made, "stdout", "work", "exit"
    exit_code,      \* exit status of the process; -1 while it runs
    requests        \* page and detail fetches issued so far

searchVars == <<truth, flaky, max_page, spc, probe, first_empty, low, high, candidate,
                outer_iters, attempt, returned, last, confNonEmpty, confEmpty,
                   c_prev, c_next>>

outVars == <<out_file, prior_out>>

collectVars == <<svc, fetch_fails, run, workers, last_pages, segments_list,
                 pages_per_category, cpc, seg_idx, next_page, segment_done, wpc, wpage, wfound, pages_done,
                 retry_later, seen, seen_per_ruid_cat, temp_rows, temp_final,
                 global_retry_list, max_page_with_content, retry_queue,
                 indefinite_retry_set, failed_indefinite_segments,
                 settled, fetched_empty, ended, yielded, attempts_made,
                 gave_up, failed_csv>>

enrichVars == <<rows, force, enrich_workers, output_rows_dict, already_enriched,
                unique_needed, mpc, next_index, fwpc, fwi, result_queue,
                enriched, next_row, temp_out, wrpc, fetch_calls>>

discoverVars == <<table, prior_table, args, page_counts, segments, dseg_idx,
                  existing, results, dpc>>

throttleVars == <<clock, delay, last_request_time, tpc, wake, grants>>

setupVars == <<stage, ifwt, table_state, input_state, no_segments, csv_mode,
               cookies, supc, exit_code, requests>>

vars == <<searchVars, outVars, collectVars, enrichVars, discoverVars, throttleVars,
          setupVars>>

\* What the actions of one stage leave alone: the variables of the others.
notSearch == <<outVars, collectVars, enrichVars, discoverVars, throttleVars, setupVars>>
notCollect == <<searchVars, enrichVars, discoverVars, throttleVars, setupVars>>
notEnrich == <<searchVars, collectVars, discoverVars, throttleVars, setupVars>>
notDiscover == <<outVars, collectVars, enrichVars, throttleVars, setupVars>>
notThrottle == <<searchVars, outVars, collectVars, enrichVars, discoverVars, setupVars>>
notSetup == <<searchVars, outVars, collectVars, enrichVars, discoverVars, throttleVars>>

\* No output file (the boundary search has none).
NoOutput == out_file = [exists |-> FALSE, rows |-> <<>>] /\ prior_out = out_file

\* No start of a stage is being followed.
SetupIdle ==
    /\ stage = -1 /\ ifwt = FALSE /\ table_state = "ok" /\ input_state = "ok"
    /\ no_segments = FALSE /\ csv_mode = FALSE /\ cookies = "none"
    /\ supc = "idle" /\ exit_code = -1 /\ requests = 0

\* No discovery run (main of 0-find_last_pages.py) is under way.
DiscoverIdle ==
    /\ table = [exists |-> FALSE, rows |-> <<>>] /\ prior_table = table
    /\ args = <<>> /\ page_counts = <<>> /\ segments = <<>> /\ dseg_idx = 0
    /\ existing = <<>> /\ results = <<>> /\ dpc = "idle"

\* No request has gone through the throttle.
ThrottleIdle ==
    /\ clock = 0 /\ delay = 0 /\ last_request_time = 0
    /\ tpc = <<>> /\ wake = <<>> /\ grants = <<>>

\* The enrichment stage is not running.
EnrichIdle ==
    /\ rows = <<>> /\ force = FALSE /\ enrich_workers = 0
    /\ output_rows_dict = <<>> /\ already_enriched = {} /\ unique_needed = <<>>
    /\ mpc = "idle" /\ next_index = 0 /\ fwpc = <<>> /\ fwi = <<>>
    /\ result_queue = <<>> /\ enriched = <<>> /\ next_row = 0
    /\ temp_out = <<>> /\ wrpc = "off" /\ fetch_calls = <<>>

\* The collection stage is not running.
CollectIdle ==
    /\ svc = <<>> /\ fetch_fails = {} /\ run = 0 /\ workers = 0
    /\ last_pages = <<>> /\ segments_list = <<>> /\ pages_per_category = 0
    /\ cpc = "idle" /\ seg_idx = 0 /\ next_page = 0 /\ segment_done = FALSE
    /\ wpc = <<>> /\ wpage = <<>> /\ wfound = <<>> /\ pages_done = 0 /\ retry_later = <<>>
    /\ seen = {} /\ seen_per_ruid_cat = {} /\ temp_rows = <<>> /\ temp_final = <<>>
    /\ global_retry_list = <<>> /\ max_page_with_content = <<>>
    /\ retry_queue = <<>> /\ indefinite_retry_set = {}
    /\ failed_indefinite_segments = {}
    /\ settled = {} /\ fetched_empty = {} /\ ended = {} /\ yielded = {}
    /\ attempts_made = <<>>
    /\ gave_up = {} /\ failed_csv = [exists |-> FALSE, rows |-> <<>>]


\* ====================================================================
\* Boundary search
\* ====================================================================

\* fetch_page_with_retries(page, max_attempts=1): the counts one attempt can
\* return.  A page past the true end is empty; a page with data returns its
\* records or, when the service is flaky (failed fetch, loading shell), 0.
fetch_page_with_retries(page) ==
    IF page <= truth
    THEN (IF flaky THEN {0, MAX_ITEMS_PER_PAGE} ELSE {MAX_ITEMS_PER_PAGE})
    ELSE {0}

\* The test of the binary search on the count of mid (line 108).
has_data_or_none(count) == count >= 0

has_data(count) == count > 0

\* phase1_first_empty: one probe of the loop (line 70-77).
Phase1Probe ==
    /\ UNCHANGED notSearch
    /\ spc = "phase1"
    /\ probe <= max_page
    /\ \E count \in fetch_page_with_retries(probe) :
          IF count = 0
          THEN /\ first_empty' = probe
               /\ spc' = "phase2"
               /\ probe' = probe
          ELSE /\ probe' = probe + PROBE_STEP
               /\ UNCHANGED <<first_empty, spc>>
    /\ UNCHANGED <<truth, flaky, max_page, low, high, candidate, outer_iters, attempt,
                   returned, last, confNonEmpty, confEmpty,
                   c_prev, c_next>>

\* A phase 1 that reports the hint itself when no probe was empty.
Phase1ExhaustedAtHint ==
    /\ UNCHANGED notSearch
    /\ spc = "phase1"
    /\ probe > max_page
    /\ first_empty' = max_page
    /\ spc' = "phase2"
    /\ UNCHANGED <<truth, flaky, max_page, probe, low, high, candidate, outer_iters,
                   attempt, returned, last, confNonEmpty, confEmpty,
                   c_prev, c_next>>

\* phase1_first_empty: no probe was empty (line 78).
Phase1Exhausted ==
    /\ UNCHANGED notSearch
    /\ spc = "phase1"
    /\ probe > max_page
    /\ first_empty' = max_page + PROBE_STEP
    /\ spc' = "phase2"
    /\ UNCHANGED <<truth, flaky, max_page, probe, low, high, candidate, outer_iters,
                   attempt, returned, last, confNonEmpty, confEmpty,
                   c_prev, c_next>>

\* phase2_binary_search_to_last, lines 91-96.
Phase2Enter ==
    /\ UNCHANGED notSearch
    /\ spc = "phase2"
    /\ low' = 1
    /\ high' = first_empty - 1
    /\ candidate' = 1
    /\ outer_iters' = 0
    /\ IF first_empty - 1 < 1
       THEN /\ returned' = "None"
            /\ spc' = "done"
       ELSE /\ returned' = returned
            /\ spc' = "outer"
    /\ UNCHANGED <<truth, flaky, max_page, probe, first_empty, attempt, last,
                   confNonEmpty, confEmpty,
                   c_prev, c_next>>

\* while outer_iters < max_outer (line 98-99) and the exit at line 148-149.
OuterLoop ==
    /\ UNCHANGED notSearch
    /\ spc = "outer"
    /\ IF outer_iters < max_outer
       THEN /\ outer_iters' = outer_iters + 1
            /\ spc' = "bsearch"
            /\ UNCHANGED <<returned, last>>
       ELSE /\ returned' = "page"
            /\ last' = candidate
            /\ spc' = "done"
            /\ UNCHANGED outer_iters
    /\ UNCHANGED <<truth, flaky, max_page, probe, first_empty, low, high, candidate,
                   attempt, confNonEmpty, confEmpty,
                   c_prev, c_next>>

\* A binary search whose mid is rounded down.
BinaryStepRoundsDown ==
    /\ UNCHANGED notSearch
    /\ spc = "bsearch"
    /\ low < high
    /\ LET mid == (low + high) \div 2 IN
       \E count \in fetch_page_with_retries(mid) :
          IF has_data(count)
          THEN low' = mid /\ high' = high
          ELSE high' = mid - 1 /\ low' = low
    /\ UNCHANGED <<truth, flaky, max_page, spc, probe, first_empty, candidate,
                   outer_iters, attempt, returned, last, confNonEmpty, confEmpty,
                   c_prev, c_next>>

\* A binary search that takes every answer for a page with data.
BinaryStepTrustsMid ==
    /\ UNCHANGED notSearch
    /\ spc = "bsearch"
    /\ low < high
    /\ LET mid == (low + high + 1) \div 2 IN
       \E count \in fetch_page_with_retries(mid) :
          IF count >= 0
          THEN low' = mid /\ high' = high
          ELSE high' = mid - 1 /\ low' = low
    /\ UNCHANGED <<truth, flaky, max_page, spc, probe, first_empty, candidate,
                   outer_iters, attempt, returned, last, confNonEmpty, confEmpty,
                   c_prev, c_next>>

\* One iteration of while low < high (line 102-115).
BinaryStep ==
    /\ UNCHANGED notSearch
    /\ spc = "bsearch"
    /\ low < high
    /\ LET mid == (low + high + 1) \div 2 IN
       \E count \in fetch_page_with_retries(mid) :
          IF has_data(count)
          THEN low' = mid /\ high' = high
          ELSE high' = mid - 1 /\ low' = low
    /\ UNCHANGED <<truth, flaky, max_page, spc, probe, first_empty, candidate,
                   outer_iters, attempt, returned, last, confNonEmpty, confEmpty,
                   c_prev, c_next>>

\* candidate = low (line 116) and entry of the confirmation loop.
SetCandidate ==
    /\ UNCHANGED notSearch
    /\ spc = "bsearch"
    /\ ~(low < high)
    /\ candidate' = low
    /\ attempt' = 0
    /\ spc' = "confirm"
    \* the later returns name only candidate - 1 or candidate: older pages
    \* of the confirmation history are dropped
    /\ confNonEmpty' = {p \in confNonEmpty : p >= low - 1}
    /\ confEmpty' = {p \in confEmpty : p >= low - 1}
    /\ UNCHANGED <<truth, flaky, max_page, probe, first_empty, low, high, outer_iters,
                   returned, last, c_prev, c_next>>

\* A confirmation attempt whose fallback keeps the candidate.
ConfirmAttemptKeepsCandidate ==
    /\ UNCHANGED notSearch
    /\ spc = "confirm"
    /\ attempt < CONFIRM_ATTEMPTS
    /\ \E n_prev \in fetch_page_with_retries(candidate),
          n_next \in fetch_page_with_retries(candidate + 1) :
          /\ c_prev' = n_prev /\ c_next' = n_next
          /\ confNonEmpty' = confNonEmpty
                 \cup (IF n_prev > 0 THEN {candidate} ELSE {})
                 \cup (IF n_next > 0 THEN {candidate + 1} ELSE {})
          /\ confEmpty' = confEmpty
                 \cup (IF n_prev = 0 THEN {candidate} ELSE {})
                 \cup (IF n_next = 0 THEN {candidate + 1} ELSE {})
          /\ IF n_prev > 0 /\ n_next = 0
             THEN /\ returned' = "page"
                  /\ last' = candidate
                  /\ spc' = "done"
                  /\ UNCHANGED <<low, high, attempt>>
             ELSE IF n_prev = 0 /\ attempt = CONFIRM_ATTEMPTS - 1
             THEN /\ IF candidate > 1
                     THEN returned' = "page" /\ last' = candidate
                     ELSE returned' = "None" /\ last' = last
                  /\ spc' = "done"
                  /\ UNCHANGED <<low, high, attempt>>
             ELSE IF n_next > 0
             THEN /\ low' = candidate + 1
                  /\ high' = first_empty - 1
                  /\ attempt' = attempt
                  /\ IF candidate + 1 > first_empty - 1
                     THEN /\ returned' = "page"
                          /\ last' = candidate
                          /\ spc' = "done"
                     ELSE /\ spc' = "outer"
                          /\ UNCHANGED <<returned, last>>
             ELSE /\ attempt' = attempt + 1
                  /\ UNCHANGED <<low, high, returned, last, spc>>
    /\ UNCHANGED <<truth, flaky, max_page, probe, first_empty, candidate, outer_iters>>

\* A confirmation attempt whose fallback returns candidate - 1 for page 1 too.
ConfirmAttemptFallsToZero ==
    /\ UNCHANGED notSearch
    /\ spc = "confirm"
    /\ attempt < CONFIRM_ATTEMPTS
    /\ \E n_prev \in fetch_page_with_retries(candidate),
          n_next \in fetch_page_with_retries(candidate + 1) :
          /\ c_prev' = n_prev /\ c_next' = n_next
          /\ confNonEmpty' = confNonEmpty
                 \cup (IF n_prev > 0 THEN {candidate} ELSE {})
                 \cup (IF n_next > 0 THEN {candidate + 1} ELSE {})
          /\ confEmpty' = confEmpty
                 \cup (IF n_prev = 0 THEN {candidate} ELSE {})
                 \cup (IF n_next = 0 THEN {candidate + 1} ELSE {})
          /\ IF n_prev > 0 /\ n_next = 0
             THEN /\ returned' = "page"
                  /\ last' = candidate
                  /\ spc' = "done"
                  /\ UNCHANGED <<low, high, attempt>>
             ELSE IF n_prev = 0 /\ attempt = CONFIRM_ATTEMPTS - 1
             THEN /\ IF candidate >= 1
                     THEN returned' = "page" /\ last' = candidate - 1
                     ELSE returned' = "None" /\ last' = last
                  /\ spc' = "done"
                  /\ UNCHANGED <<low, high, attempt>>
             ELSE IF n_next > 0
             THEN /\ low' = candidate + 1
                  /\ high' = first_empty - 1
                  /\ attempt' = attempt
                  /\ IF candidate + 1 > first_empty - 1
                     THEN /\ returned' = "page"
                          /\ last' = candidate
                          /\ spc' = "done"
                     ELSE /\ spc' = "outer"
                          /\ UNCHANGED <<returned, last>>
             ELSE /\ attempt' = attempt + 1
                  /\ UNCHANGED <<low, high, returned, last, spc>>
    /\ UNCHANGED <<truth, flaky, max_page, probe, first_empty, candidate, outer_iters>>

\* One confirmation attempt (line 119-141) and what follows its break
\* (line 145-147).
ConfirmAttempt ==
    /\ UNCHANGED notSearch
    /\ spc = "confirm"
    /\ attempt < CONFIRM_ATTEMPTS
    /\ \E n_prev \in fetch_page_with_retries(candidate),
          n_next \in fetch_page_with_retries(candidate + 1) :
          /\ c_prev' = n_prev /\ c_next' = n_next
          /\ confNonEmpty' = confNonEmpty
                 \cup (IF n_prev > 0 THEN {candidate} ELSE {})
                 \cup (IF n_next > 0 THEN {candidate + 1} ELSE {})
          /\ confEmpty' = confEmpty
                 \cup (IF n_prev = 0 THEN {candidate} ELSE {})
                 \cup (IF n_next = 0 THEN {candidate + 1} ELSE {})
          /\ IF n_prev > 0 /\ n_next = 0
             THEN /\ returned' = "page"
                  /\ last' = candidate
                  /\ spc' = "done"
                  /\ UNCHANGED <<low, high, attempt>>
             ELSE IF n_prev = 0 /\ attempt = CONFIRM_ATTEMPTS - 1
             THEN /\ IF candidate > 1
                     THEN returned' = "page" /\ last' = candidate - 1
                     ELSE returned' = "None" /\ last' = last
                  /\ spc' = "done"
                  /\ UNCHANGED <<low, high, attempt>>
             ELSE IF n_next > 0
             THEN /\ low' = candidate + 1
                  /\ high' = first_empty - 1
                  /\ attempt' = attempt
                  /\ IF candidate + 1 > first_empty - 1
                     THEN /\ returned' = "page"
                          /\ last' = candidate
                          /\ spc' = "done"
                     ELSE /\ spc' = "outer"
                          /\ UNCHANGED <<returned, last>>
             ELSE /\ attempt' = attempt + 1
                  /\ UNCHANGED <<low, high, returned, last, spc>>
    /\ UNCHANGED <<truth, flaky, max_page, probe, first_empty, candidate, outer_iters>>

\* The for ... else branch (line 142-144) is not an action: on the last attempt
\* every case of the loop body returns or breaks, so the loop never runs out.

phase2_binary_search_to_last ==
    \/ Phase2Enter
    \/ OuterLoop
    \/ BinaryStep
    \/ SetCandidate
    \/ ConfirmAttempt

SearchIdle ==
    /\ truth = 0 /\ flaky = FALSE /\ max_page = 0 /\ spc = "idle" /\ probe = 0 /\ first_empty = 0
    /\ low = 0 /\ high = 0 /\ candidate = 0 /\ outer_iters = 0 /\ attempt = 0
    /\ returned = "running" /\ last = 0 /\ confNonEmpty = {} /\ confEmpty = {}
    /\ c_prev = 0 /\ c_next = 0

\* phase 2 called on its own: every true last page and every first_empty
\* phase 1 can hand over (a page past the true end, or, on a flaky service,
\* any page).
InitPhase2 ==
    /\ CollectIdle /\ EnrichIdle /\ NoOutput /\ DiscoverIdle /\ ThrottleIdle /\ SetupIdle
    /\ truth \in 0..MaxTruth
    /\ flaky \in BOOLEAN
    /\ first_empty \in 1..MaxFirstEmpty
    /\ ~flaky => first_empty > truth
    /\ max_page = first_empty
    /\ spc = "phase2" /\ probe = 0
    /\ low = 0 /\ high = 0 /\ candidate = 0 /\ outer_iters = 0 /\ attempt = 0
    /\ returned = "running" /\ last = 0 /\ confNonEmpty = {} /\ confEmpty = {}
    /\ c_prev = 0 /\ c_next = 0

SpecPhase2 == InitPhase2 /\ [][phase2_binary_search_to_last]_vars

\* main, line 309-316, on the example partition: max_page is ceil(total / 150)
\* when the API total is known and 8750 when it is not; phase 1, then phase 2.
MaxPageEstimates == {ExampleLastPage, DEFAULT_MAX_PAGE}

InitSearch ==
    /\ CollectIdle /\ EnrichIdle /\ NoOutput /\ DiscoverIdle /\ ThrottleIdle /\ SetupIdle
    /\ truth = ExampleLastPage
    /\ flaky \in BOOLEAN
    /\ max_page \in MaxPageEstimates
    /\ spc = "phase1" /\ probe = PROBE_STEP /\ first_empty = 0
    /\ low = 0 /\ high = 0 /\ candidate = 0 /\ outer_iters = 0 /\ attempt = 0
    /\ returned = "running" /\ last = 0 /\ confNonEmpty = {} /\ confEmpty = {}
    /\ c_prev = 0 /\ c_next = 0

NextSearch ==
    \/ Phase1Probe
    \/ Phase1Exhausted
    \/ phase2_binary_search_to_last

SpecSearch == InitSearch /\ [][NextSearch]_vars

\* ---- claims on the boundary search ----

\* C4: phase 2 returns none or a page L such that, within the call, a
\* confirming fetch of L was non-empty and a confirming fetch of L+1 was empty.
C4_ReturnedPageConfirmed ==
    returned = "page" => (last \in confNonEmpty /\ (last + 1) \in confEmpty)

\* phase1_first_empty called on its own.
phase1_first_empty ==
    \/ Phase1Probe
    \/ Phase1Exhausted

\* True last pages and hints around the multiples of the stride.
StridePages == {k * PROBE_STEP + d : k \in 0..MaxStrides, d \in {-1, 0, 1}}

InitPhase1 ==
    /\ CollectIdle /\ EnrichIdle /\ NoOutput /\ DiscoverIdle /\ ThrottleIdle /\ SetupIdle
    /\ truth \in {t \in StridePages : t >= 0}
    /\ flaky \in BOOLEAN
    /\ max_page \in {m \in StridePages : m >= 1} \cup MaxPageEstimates
    /\ spc = "phase1" /\ probe = PROBE_STEP /\ first_empty = 0
    /\ low = 0 /\ high = 0 /\ candidate = 0 /\ outer_iters = 0 /\ attempt = 0
    /\ returned = "running" /\ last = 0 /\ confNonEmpty = {} /\ confEmpty = {}
    /\ c_prev = 0 /\ c_next = 0

SpecPhase1 == InitPhase1 /\ [][phase1_first_empty]_vars

\* The pages phase 1 may probe: stride, 2 * stride, ... up to max_page.
ProbePages == {k * PROBE_STEP : k \in 1..(max_page \div PROBE_STEP)}

\* C29: phase 1 probes the pages stride, 2 * stride, ... up to the hint,
\* each once, and its result is the first of them that was empty: every
\* probe page before it holds data, and on a service that answers truly the
\* page itself holds none; when no probe was empty, every probe page holds
\* data and the result is the hint + stride.
C29_Phase1FirstEmpty ==
    /\ [][spc = "phase1" /\ probe' # probe =>
            probe \in ProbePages /\ probe' = probe + PROBE_STEP]_vars
    /\ [](spc = "phase1" => \A q \in ProbePages : q < probe => q <= truth)
    /\ [](spc # "phase1" =>
            IF first_empty \in ProbePages
            THEN /\ first_empty = probe
                 /\ \A q \in ProbePages : q < first_empty => q <= truth
                 /\ ~flaky => first_empty > truth
            ELSE /\ first_empty = max_page + PROBE_STEP
                 /\ \A q \in ProbePages : q <= truth)

\* No probe was empty: phase 1 has probed two pages or more, each held
\* data, and has reported the hint + stride.
C29_Witness ==
    /\ spc = "phase2" /\ first_empty = max_page + PROBE_STEP
    /\ max_page >= 2 * PROBE_STEP /\ probe > max_page

\* The third, final attempt of the confirmation loop is about to be made.
FinalAttempt == spc = "confirm" /\ attempt = CONFIRM_ATTEMPTS - 1

\* C28: when the candidate page is empty on the final confirmation attempt
\* the search returns candidate - 1 if candidate > 1 and none if
\* candidate = 1; none is returned only then or on an empty search range.
C28_ConfirmationFallback ==
    /\ [][(FinalAttempt /\ c_prev' = 0) =>
            /\ spc' = "done"
            /\ IF candidate > 1
               THEN returned' = "page" /\ last' = candidate - 1
               ELSE returned' = "None"]_vars
    /\ [](returned = "None" =>
            \/ first_empty - 1 < 1
            \/ candidate = 1 /\ c_prev = 0 /\ attempt = CONFIRM_ATTEMPTS - 1)

\* The search has fallen back to candidate - 1: the candidate, a page with
\* data, was empty on each of the three attempts.
C28_Witness ==
    /\ spc = "done" /\ returned = "page" /\ attempt = CONFIRM_ATTEMPTS - 1
    /\ c_prev = 0 /\ candidate > 1 /\ last = candidate - 1
    /\ candidate <= truth

\* A confirmation attempt finds candidate + 1 non-empty, and what C30 says
\* follows: the range becomes [candidate + 1, first_empty - 1] and the
\* binary search restarts.
ReSearchOnSuccessor ==
    (spc = "confirm" /\ c_next' > 0) =>
        /\ low' = candidate + 1 /\ high' = first_empty - 1
        /\ spc' = "outer"

\* The candidate of a later outer iteration is greater than the one before
\* and at most first_empty - 1.
CandidateRises ==
    (spc = "bsearch" /\ spc' = "confirm" /\ outer_iters > 1) =>
        candidate' > candidate /\ candidate' <= first_empty - 1

\* C30: whenever a confirmation attempt finds candidate + 1 non-empty, the
\* search range becomes [candidate + 1, first_empty - 1] and the binary
\* search restarts, so the candidate of every later outer iteration is
\* strictly greater than the current candidate and never exceeds
\* first_empty - 1.
C30_ReSearch ==
    /\ [][ReSearchOnSuccessor]_vars
    /\ [][CandidateRises]_vars

\* Phase 2 on a range of MaxOuterPages pages, all of them or only the
\* first holding data: wide enough for the outer loop to run out.
InitOuter ==
    /\ CollectIdle /\ EnrichIdle /\ NoOutput /\ DiscoverIdle /\ ThrottleIdle /\ SetupIdle
    /\ truth \in {1, MaxOuterPages}
    /\ flaky \in BOOLEAN
    /\ first_empty = MaxOuterPages + 1
    /\ max_page = first_empty
    /\ spc = "phase2" /\ probe = 0
    /\ low = 0 /\ high = 0 /\ candidate = 0 /\ outer_iters = 0 /\ attempt = 0
    /\ returned = "running" /\ last = 0 /\ confNonEmpty = {} /\ confEmpty = {}
    /\ c_prev = 0 /\ c_next = 0

\* The function runs on: a step is taken whenever one is possible.
SpecOuter ==
    /\ InitOuter /\ [][phase2_binary_search_to_last]_vars
    /\ WF_vars(phase2_binary_search_to_last)

\* A step of the inner binary search shrinks [low, high] and keeps it
\* non-empty.
RangeShrinks ==
    (spc = "bsearch" /\ spc' = "bsearch") =>
        /\ high' - low' < high - low
        /\ low' <= high'

\* C31: the boundary search terminates whatever the fetches return: each
\* step of the inner binary search strictly shrinks [low, high], a
\* confirmation loop makes at most 3 attempts, the outer loop runs at most
\* 20 times, and a value is returned.
C31_SearchTerminates ==
    /\ [][RangeShrinks]_vars
    /\ [](attempt < CONFIRM_ATTEMPTS)
    /\ [](outer_iters <= max_outer)
    /\ <>(spc = "done" /\ returned \in {"page", "None"})

\* The outer loop has run out: after the 20th iteration found candidate + 1
\* non-empty with pages left to search, the candidate was returned.
C31_Witness ==
    /\ spc = "done" /\ outer_iters = max_outer /\ returned = "page"
    /\ last = candidate /\ low = candidate + 1 /\ low <= high

\* C37: on a service without noise, where pages 1..T hold data and every
\* page above T is empty (T >= 1, T below the first_empty of phase 1),
\* phase 2 returns exactly T.
C37_NoiseFreeExact ==
    (spc = "done" /\ ~flaky /\ truth >= 1 /\ truth < first_empty) =>
        (returned = "page" /\ last = truth)

\* A noise-free search over a range of several pages has ended on the true
\* last page, which lies inside the range.
C37_Witness ==
    /\ spc = "done" /\ ~flaky /\ outer_iters >= 1
    /\ truth >= 2 /\ truth + 1 < first_empty
    /\ returned = "page" /\ last = truth

\* C10 as stated: on the example partition (pages 1..42 hold data), with
\* false-empty responses on pages <= 42, the search returns L = 42.
C10_ReturnsExampleLastPage ==
    returned # "running" => (returned = "page" /\ last = ExampleLastPage)

\* C10 amended: the search ends within the 20 outer iterations with none or
\* a page L with 1 <= L <= 42 (never past the true last page), and with
\* exactly L = 42 when no false-empty response is injected.
C10_WithinTrueLastPage ==
    /\ outer_iters <= max_outer
    /\ returned = "page" => last \in 1..ExampleLastPage
    /\ (returned # "running" /\ ~flaky) =>
           (returned = "page" /\ last = ExampleLastPage)

\* The example search has ended on page 42 after a false-empty response sent
\* the binary search too low and a confirmation attempt sent it back up.
C10_Witness ==
    /\ flaky /\ returned = "page" /\ last = ExampleLastPage
    /\ outer_iters > 1

\* ====================================================================
\* Collection: taxonomy, names, rows
\* ====================================================================

\* category_subcategories.json as loaded by _load_category_data: one category
\* with one specific subcategory and the catch-all.
CATEGORY_NAMES == (0 :> "sprite")
SUBCATS_BY_CATEGORY == (0 :> ((5 :> "object") @@ (-1 :> "all")))

\* str() of the ids the model uses.
Str(i) == CASE i = 0 -> "0" [] i = 5 -> "5" [] i = 6 -> "6" [] i = -1 -> "-1"
            [] OTHER -> "?"

\* sorted(sub_ids): the specific subcategories of sub-id set S in ascending order.
RECURSIVE SortedSeq(_)
SortedSeq(S) ==
    IF S = {} THEN <<>>
    ELSE LET m == CHOOSE x \in S : \A y \in S : x <= y
         IN <<m>> \o SortedSeq(S \ {m})

\* (cid, sid) tuples compare as Python tuples do.
TupleLess(a, b) == a[1] < b[1] \/ (a[1] = b[1] /\ a[2] < b[2])

\* sorted() of a set of (cid, sid) tuples
RECURSIVE SortedKeys(_)
SortedKeys(S) ==
    IF S = {} THEN <<>>
    ELSE LET m == CHOOSE x \in S : \A y \in S \ {x} : TupleLess(x, y)
         IN <<m>> \o SortedKeys(S \ {m})

\* iter_segments(categories, all_only) for a sequence of category ids.
RECURSIVE iter_segments(_, _)
iter_segments(categories, all_only) ==
    IF categories = <<>> THEN <<>>
    ELSE LET c == Head(categories)
             subs == IF c \in DOMAIN SUBCATS_BY_CATEGORY
                     THEN DOMAIN SUBCATS_BY_CATEGORY[c] ELSE {}
             specific == SortedSeq(subs \ {-1})
             mine == IF all_only
                     THEN (IF -1 \in subs THEN <<<<c, -1>>>> ELSE <<>>)
                     ELSE [i \in 1..Len(specific) |-> <<c, specific[i]>>]
                          \o (IF -1 \in subs THEN <<<<c, -1>>>> ELSE <<>>)
         IN mine \o iter_segments(Tail(categories), all_only)

Segments == {<<c, sub>> : c \in DOMAIN CATEGORY_NAMES, sub \in {5, -1}}

\* get_category_and_subcategory_names
get_category_and_subcategory_names(category, subcategory) ==
    LET cat_name == IF category \in DOMAIN CATEGORY_NAMES
                    THEN CATEGORY_NAMES[category] ELSE Str(category)
        subs == IF category \in DOMAIN SUBCATS_BY_CATEGORY
                THEN SUBCATS_BY_CATEGORY[category] ELSE <<>>
    IN IF subcategory = -1 THEN <<cat_name, "all">>
       ELSE IF subcategory \in DOMAIN subs THEN <<cat_name, subs[subcategory]>>
       ELSE <<cat_name, Str(subcategory)>>

\* _name_to_segment: the (category_name, subcategory_name) pairs it maps, as
\* a set of <<names, segment>>; later entries of the dict overwrite earlier
\* ones, so "" and "all" always map to the catch-all.
name_to_seg ==
    LET named == {<<<<CATEGORY_NAMES[c], SUBCATS_BY_CATEGORY[c][sub]>>, <<c, sub>>>> :
                     c \in DOMAIN CATEGORY_NAMES, sub \in {5, -1}}
        catchall == {<<<<CATEGORY_NAMES[c], n>>, <<c, -1>>>> :
                     c \in DOMAIN CATEGORY_NAMES, n \in {"", "all"}}
    IN {e \in named : e[1][2] \notin {"", "all"}} \cup catchall

NameKnown(key_n) == \E e \in name_to_seg : e[1] = key_n
SegOfName(key_n) == (CHOOSE e \in name_to_seg : e[1] = key_n)[2]

\* str.lower() on the RUID spellings of the model.
Lower(ruid) == IF ruid = "R" THEN "r" ELSE ruid

\* A CSV row is <<RUID, Category, Subcategory, Date, Format, Tags>>.
NewRow(ruid, seg) ==
    LET names == get_category_and_subcategory_names(seg[1], seg[2])
    IN <<ruid, names[1], names[2], "", "", "">>

\* Key (ruid.lower(), cat_id, sub_id) of a row whose names are known.
RowKey(row) == LET sg == SegOfName(<<row[2], row[3]>>)
               IN <<Lower(row[1]), sg[1], sg[2]>>

\* load_existing_ruids_from_csv
load_existing_ruids_from_csv(file) ==
    IF ~file.exists THEN {}
    ELSE {RowKey(file.rows[i]) :
            i \in {j \in 1..Len(file.rows) :
                     /\ file.rows[j][1] # ""
                     /\ NameKnown(<<file.rows[j][2], file.rows[j][3]>>)}}

\* The dedup-and-write loop over the RUIDs of one page (line 621-638, the same
\* code at 507-524 and 1044-1059).  st = [seen, cat, rows].
CommitOneNoSeenCheck(st, ruid, seg) ==
    [seen |-> st.seen \cup {<<ruid, seg[1], seg[2]>>},
     cat  |-> st.cat \cup {<<ruid, seg[1]>>},
     rows |-> Append(st.rows, NewRow(ruid, seg))]

CommitOne(st, ruid, seg) ==
    LET key == <<ruid, seg[1], seg[2]>>
        skip == IF seg[2] = -1 THEN <<ruid, seg[1]>> \in st.cat
                ELSE key \in st.seen
    IN IF skip THEN st
       ELSE [seen |-> st.seen \cup {key},
             cat  |-> st.cat \cup {<<ruid, seg[1]>>},
             rows |-> Append(st.rows, NewRow(ruid, seg))]

RECURSIVE CommitFound(_, _, _)
CommitFound(st, ids, seg) ==
    IF ids = <<>> THEN st
    ELSE CommitFound(CommitOne(st, Head(ids), seg), Tail(ids), seg)

\* What a worker holds when it has no page in hand.
NoFound == [n |-> 0, ids |-> <<>>]

\* The fake service.  A page is [n, ids]: n RUIDs of which ids (a sequence, in
\* page order) are the ones the model follows; a page past the end has n = 0.
PageAt(seg, page) ==
    IF page <= Len(svc[seg]) THEN svc[seg][page] ELSE [n |-> 0, ids |-> <<>>]

\* fetch_page + _extract_ruids_from_listing_html: what one request can give.
\* html = FALSE is fetch_page returning None; a flaky response has no RUIDs.
FetchResults(seg, page) ==
    {[html |-> TRUE, n |-> PageAt(seg, page).n, ids |-> PageAt(seg, page).ids]}
    \cup (IF <<seg, page>> \in fetch_fails
          THEN {[html |-> FALSE, n |-> 0, ids |-> <<>>],
                [html |-> TRUE, n |-> 0, ids |-> <<>>]}
          ELSE {})

\* line 641 / 527: is_last
is_last_ignores_hint(step0_last_page, page, count) ==
    count = 0 \/ count < MAX_ITEMS_PER_PAGE

is_last(step0_last_page, page, count) ==
    /\ page >= step0_last_page
    /\ (count = 0 \/ count < MAX_ITEMS_PER_PAGE)

Seg == segments_list[seg_idx]
seg_cap_one_more == last_pages[Seg] + SKEPTICAL_PAGE_BUFFER + 1

seg_cap == last_pages[Seg] + SKEPTICAL_PAGE_BUFFER
Workers == 1..workers

\* ====================================================================
\* Collection: the page walk
\* ====================================================================

collectCfg == <<svc, fetch_fails, run, workers, last_pages, segments_list,
               pages_per_category, prior_out>>
drainVars == <<retry_queue, indefinite_retry_set, failed_indefinite_segments>>
fileVars == <<out_file, temp_final>>
dedupVars == <<seen, seen_per_ruid_cat, temp_rows>>

\* Pages of the current partition claimed so far: the cursor starts at 1 and
\* is only ever incremented by a claim.
ClaimedPages == 1..(next_page - 1)

\* global_retry_list.append((category, subcategory, page, 1)) by a page worker
\* (line 602-603 and 609-610): the tickets stand in the order in which the
\* workers got their answers.
AppendTicket(list, t) == Append(list, t)

Yield(res, seg) == yielded \cup {<<res.ids[i], seg>> : i \in 1..Len(res.ids)}

\* An end of a partition walk that goes straight to the retry pass when the
\* partition yielded no page with content.
NextSegmentStopsOnFailure(grl) ==
    /\ settled' = {}
    /\ fetched_empty' = {}
    /\ next_page' = 1
    /\ segment_done' = FALSE
    /\ pages_done' = 0
    /\ retry_later' = <<>>
    /\ global_retry_list' = grl
    /\ IF seg_idx < Len(segments_list) /\ max_page_with_content[Seg] > 0
       THEN /\ seg_idx' = seg_idx + 1
            /\ wpc' = [w \in Workers |-> "claim"]
            /\ UNCHANGED <<cpc, retry_queue, indefinite_retry_set>>
       ELSE /\ seg_idx' = seg_idx
            /\ wpc' = [w \in Workers |-> "returned"]
            /\ cpc' = "retry"
            /\ indefinite_retry_set' =
                 {<<grl[i][1], grl[i][2], grl[i][3]>> :
                    i \in {j \in 1..Len(grl) :
                      max_page_with_content[<<grl[j][1], grl[j][2]>>] > grl[j][3]}}
            /\ retry_queue' = grl

\* What the end of a partition walk hands to main: the next partition, or,
\* after the last one, the retry pass (line 979-993).
NextSegment(grl) ==
    /\ settled' = {}
    /\ fetched_empty' = {}
    /\ next_page' = 1
    /\ segment_done' = FALSE
    /\ pages_done' = 0
    /\ retry_later' = <<>>
    /\ global_retry_list' = grl
    /\ IF seg_idx < Len(segments_list)
       THEN /\ seg_idx' = seg_idx + 1
            /\ wpc' = [w \in Workers |-> "claim"]
            /\ UNCHANGED <<cpc, retry_queue, indefinite_retry_set>>
       ELSE /\ seg_idx' = seg_idx
            /\ wpc' = [w \in Workers |-> "returned"]
            /\ cpc' = "retry"
            /\ indefinite_retry_set' =
                 {<<grl[i][1], grl[i][2], grl[i][3]>> :
                    i \in {j \in 1..Len(grl) :
                      max_page_with_content[<<grl[j][1], grl[j][2]>>] > grl[j][3]}}
            /\ retry_queue' = grl

\* A claim that takes the page under the cursor and leaves the cursor alone.
ClaimKeepsCursor(w) ==
    /\ UNCHANGED notCollect
    /\ cpc = "walk" /\ workers > 1 /\ wpc[w] = "claim"
    /\ IF segment_done
       THEN /\ wpc' = [wpc EXCEPT ![w] = "returned"]
            /\ UNCHANGED <<next_page, segment_done, wpage, wfound>>
       ELSE IF \/ pages_per_category # 0 /\ next_page > pages_per_category
               \/ next_page > seg_cap
       THEN /\ segment_done' = TRUE
            /\ wpc' = [wpc EXCEPT ![w] = "returned"]
            /\ UNCHANGED <<next_page, wpage, wfound>>
       ELSE /\ wpage' = [wpage EXCEPT ![w] = next_page]
            /\ next_page' = IF \E v \in Workers : wpc[v] = "fetching"
                            THEN next_page + 1 ELSE next_page
            /\ wpc' = [wpc EXCEPT ![w] = "fetching"]
            /\ UNCHANGED <<segment_done, wfound>>
    /\ UNCHANGED <<collectCfg, fileVars, dedupVars, drainVars, cpc, seg_idx,
                   pages_done, retry_later, global_retry_list,
                   max_page_with_content, settled, fetched_empty, ended, yielded,
                   attempts_made, gave_up, failed_csv>>

\* _worker_fetch_next_page, line 577-590: claim the next page under the lock.
\* The worker then stands at its fetch; the unlocked look at segment_done on
\* line 591 is folded into FetchReturn.
Claim(w) ==
    /\ UNCHANGED notCollect
    /\ cpc = "walk" /\ workers > 1 /\ wpc[w] = "claim"
    /\ IF segment_done
       THEN /\ wpc' = [wpc EXCEPT ![w] = "returned"]
            /\ UNCHANGED <<next_page, segment_done, wpage, wfound>>
       ELSE IF \/ pages_per_category # 0 /\ next_page > pages_per_category
               \/ next_page > seg_cap
       THEN /\ segment_done' = TRUE
            /\ wpc' = [wpc EXCEPT ![w] = "returned"]
            /\ UNCHANGED <<next_page, wpage, wfound>>
       ELSE /\ wpage' = [wpage EXCEPT ![w] = next_page]
            /\ next_page' = next_page + 1
            /\ wpc' = [wpc EXCEPT ![w] = "fetching"]
            /\ UNCHANGED <<segment_done, wfound>>
    /\ UNCHANGED <<collectCfg, fileVars, dedupVars, drainVars, cpc, seg_idx,
                   pages_done, retry_later, global_retry_list,
                   max_page_with_content, settled, fetched_empty, ended, yielded,
                   attempts_made, gave_up, failed_csv>>

\* line 591-600: the answer to the worker's request.
\*  - segment_done already set: the worker returns without a ticket and
\*    without a commit, either before sending the request (line 591-592,
\*    sent = FALSE) or after the response (line 599-600, sent = TRUE);
\*  - no HTML or no RUIDs: the worker goes on to the ticket (line 601-614);
\*  - else the worker holds the RUIDs found and goes on to the locked
\*    sections of line 615-644, each a step of its own.
FetchReturn(w) ==
    /\ UNCHANGED notCollect
    /\ UNCHANGED <<gave_up, failed_csv>>
    /\ cpc = "walk" /\ workers > 1 /\ wpc[w] = "fetching"
    /\ \E res \in FetchResults(Seg, wpage[w]) :
         IF segment_done
         THEN /\ \E sent \in BOOLEAN :
                   /\ yielded' = IF sent THEN Yield(res, Seg) ELSE yielded
                   /\ fetched_empty' =
                        IF sent /\ (~res.html \/ res.n = 0)
                        THEN fetched_empty \cup {wpage[w]} ELSE fetched_empty
              /\ wpc' = [wpc EXCEPT ![w] = "returned"]
              /\ wpage' = [wpage EXCEPT ![w] = 0]
              /\ UNCHANGED <<settled, wfound>>
         ELSE /\ yielded' = Yield(res, Seg)
              /\ settled' = settled \cup {wpage[w]}
              /\ IF ~res.html \/ res.n = 0
                 THEN /\ wpc' = [wpc EXCEPT ![w] = "ticket"]
                      /\ UNCHANGED wfound
                 ELSE /\ wfound' = [wfound EXCEPT ![w] = [n |-> res.n, ids |-> res.ids]]
                      /\ wpc' = [wpc EXCEPT ![w] = "found"]
              /\ UNCHANGED <<fetched_empty, wpage>>
    /\ UNCHANGED <<collectCfg, fileVars, dedupVars, drainVars, cpc, seg_idx,
                   next_page, segment_done, pages_done, retry_later,
                   global_retry_list, attempts_made, max_page_with_content, ended>>

\* line 601-614: under the lock of the global retry list, the ticket of a
\* page that came back without HTML or without RUIDs; the worker goes back
\* to the claim.
TicketPage(w) ==
    /\ UNCHANGED notCollect
    /\ cpc = "walk" /\ workers > 1 /\ wpc[w] = "ticket"
    /\ global_retry_list' =
         AppendTicket(global_retry_list, <<Seg[1], Seg[2], wpage[w], 1>>)
    /\ fetched_empty' = fetched_empty \cup {wpage[w]}
    /\ attempts_made' = (<<Seg[1], Seg[2], wpage[w]>> :> 1) @@ attempts_made
    /\ wpc' = [wpc EXCEPT ![w] = "claim"]
    /\ wpage' = [wpage EXCEPT ![w] = 0]
    /\ UNCHANGED <<collectCfg, fileVars, dedupVars, drainVars, cpc, seg_idx,
                   next_page, segment_done, wfound, pages_done, retry_later,
                   max_page_with_content, settled, ended, yielded,
                   gave_up, failed_csv>>

\* line 615-620: under the lock, the largest page with content.
CommitMaxPage(w) ==
    /\ UNCHANGED notCollect
    /\ cpc = "walk" /\ workers > 1 /\ wpc[w] = "found"
    /\ max_page_with_content' =
         [max_page_with_content EXCEPT ![Seg] = IF @ > wpage[w] THEN @ ELSE wpage[w]]
    /\ wpc' = [wpc EXCEPT ![w] = IF wfound[w].ids = <<>> THEN "mark" ELSE "rows"]
    /\ UNCHANGED <<collectCfg, fileVars, dedupVars, drainVars, cpc, seg_idx,
                   next_page, segment_done, wpage, wfound, pages_done, retry_later,
                   global_retry_list, settled, fetched_empty, ended, yielded,
                   attempts_made, gave_up, failed_csv>>

\* line 621-638: one turn of the loop over found, the lock taken for the
\* one RUID.
CommitRuid(w) ==
    /\ UNCHANGED notCollect
    /\ cpc = "walk" /\ workers > 1 /\ wpc[w] = "rows"
    /\ LET st == CommitOne([seen |-> seen, cat |-> seen_per_ruid_cat,
                            rows |-> temp_rows], Head(wfound[w].ids), Seg)
       IN /\ seen' = st.seen
          /\ seen_per_ruid_cat' = st.cat
          /\ temp_rows' = st.rows
    /\ wfound' = [wfound EXCEPT ![w].ids = Tail(@)]
    /\ wpc' = [wpc EXCEPT ![w] = IF Tail(wfound[w].ids) = <<>> THEN "mark" ELSE "rows"]
    /\ UNCHANGED <<collectCfg, fileVars, drainVars, cpc, seg_idx,
                   next_page, segment_done, wpage, pages_done, retry_later,
                   global_retry_list, max_page_with_content, settled,
                   fetched_empty, ended, yielded,
                   attempts_made, gave_up, failed_csv>>

\* line 639-649: a page below the page size that is_last ends the partition;
\* the worker goes back to the claim.
MarkLast(w) ==
    /\ UNCHANGED notCollect
    /\ cpc = "walk" /\ workers > 1 /\ wpc[w] = "mark"
    /\ LET final == wfound[w].n < MAX_ITEMS_PER_PAGE
                    /\ is_last(last_pages[Seg], wpage[w], wfound[w].n)
       IN /\ segment_done' = (segment_done \/ final)
          /\ ended' = IF final
                      THEN ended \cup {[seg |-> Seg, page |-> wpage[w],
                                        count |-> wfound[w].n]}
                      ELSE ended
    /\ wpc' = [wpc EXCEPT ![w] = "claim"]
    /\ wpage' = [wpage EXCEPT ![w] = 0]
    /\ wfound' = [wfound EXCEPT ![w] = NoFound]
    /\ UNCHANGED <<collectCfg, fileVars, dedupVars, drainVars, cpc, seg_idx,
                   next_page, pages_done, retry_later,
                   global_retry_list, max_page_with_content, settled,
                   fetched_empty, yielded,
                   attempts_made, gave_up, failed_csv>>

\* _process_segment_parallel_pages, line 716-718: every worker has returned.
SegmentJoin ==
    /\ UNCHANGED notCollect
    /\ cpc = "walk" /\ workers > 1
    /\ \A w \in Workers : wpc[w] = "returned"
    /\ NextSegment(global_retry_list)
    /\ UNCHANGED <<collectCfg, fileVars, dedupVars, failed_indefinite_segments,
                   wpage, wfound, max_page_with_content, ended, yielded,
                   attempts_made, gave_up, failed_csv>>

\* _process_one_segment, one turn of the while loop (line 468-535).
SeqPage ==
    /\ UNCHANGED notCollect
    /\ UNCHANGED <<gave_up, failed_csv>>
    /\ cpc = "walk" /\ workers <= 1 /\ wpc[1] = "claim"
    /\ IF \/ pages_per_category # 0 /\ pages_done >= pages_per_category
          \/ next_page > seg_cap
       THEN /\ wpc' = [wpc EXCEPT ![1] = "returned"]
            /\ UNCHANGED <<next_page, pages_done, retry_later, dedupVars,
                           max_page_with_content, settled, fetched_empty,
                           ended, yielded, attempts_made>>
       ELSE \E res \in FetchResults(Seg, next_page) :
         LET st == CommitFound([seen |-> seen, cat |-> seen_per_ruid_cat,
                                rows |-> temp_rows], res.ids, Seg)
             final == res.n < MAX_ITEMS_PER_PAGE
                      /\ is_last(last_pages[Seg], next_page, res.n)
         IN /\ yielded' = Yield(res, Seg)
            /\ settled' = settled \cup {next_page}
            /\ IF ~res.html \/ res.n = 0
               THEN /\ retry_later' = Append(retry_later, <<next_page, 1>>)
                    /\ fetched_empty' = fetched_empty \cup {next_page}
                    /\ attempts_made' =
                         (<<Seg[1], Seg[2], next_page>> :> 1) @@ attempts_made
                    /\ next_page' = next_page + 1
                    /\ UNCHANGED <<pages_done, dedupVars, max_page_with_content,
                                   ended, wpc>>
               ELSE /\ pages_done' = pages_done + 1
                    /\ max_page_with_content' =
                         [max_page_with_content EXCEPT ![Seg] =
                            IF @ > next_page THEN @ ELSE next_page]
                    /\ seen' = st.seen
                    /\ seen_per_ruid_cat' = st.cat
                    /\ temp_rows' = st.rows
                    /\ ended' = IF final
                                THEN ended \cup {[seg |-> Seg, page |-> next_page, count |-> res.n]}
                                ELSE ended
                    \* next_page counts the pages fetched; on the break at
                    \* line 531 the code leaves page as it is and reads it
                    \* no more
                    /\ next_page' = next_page + 1
                    /\ wpc' = [wpc EXCEPT ![1] = IF final THEN "returned" ELSE "claim"]
                    /\ UNCHANGED <<retry_later, fetched_empty, attempts_made>>
    /\ UNCHANGED <<collectCfg, fileVars, drainVars, cpc, seg_idx, segment_done,
                   wpage, wfound, global_retry_list>>

\* _process_one_segment, line 538-541: hand retry_later to the global list.
SeqEnd ==
    /\ UNCHANGED notCollect
    /\ cpc = "walk" /\ workers <= 1 /\ wpc[1] = "returned"
    /\ NextSegment(global_retry_list \o
           [i \in 1..Len(retry_later) |-> <<Seg[1], Seg[2], retry_later[i][1], 1>>])
    /\ UNCHANGED <<collectCfg, fileVars, dedupVars, failed_indefinite_segments,
                   wpage, wfound, max_page_with_content, ended, yielded,
                   attempts_made, gave_up, failed_csv>>

\* ====================================================================
\* Collection: global retry pass, merge, replace
\* ====================================================================

walkVars == <<seg_idx, next_page, segment_done, wpc, wpage, wfound, pages_done,
              retry_later, global_retry_list, settled, fetched_empty, ended>>

\* A retry that re-queues a ticket once more than the limit allows.
can_retry_at_limit(attempts, max_attempts) == attempts < max_attempts

\* can_retry = (attempts + 1) < max_attempts (line 1021 and 1033)
can_retry(attempts, max_attempts) == (attempts + 1) < max_attempts

\* A discard test that lets one more page through.
past_retry_buffer_plus_one(p, max_p) == p > max_p + RETRY_PAGE_BUFFER + 1

\* if p > max_p + RETRY_PAGE_BUFFER (line 997)
past_retry_buffer(p, max_p) == p > max_p + RETRY_PAGE_BUFFER

\* A retry turn that re-queues the ticket with the attempt count it had.
RetryStepKeepsAttempts ==
    /\ UNCHANGED notCollect
    /\ cpc = "retry" /\ retry_queue # <<>>
    /\ LET t == Head(retry_queue)
           sg == <<t[1], t[2]>>
           p == t[3]
           attempts == t[4]
           max_p == max_page_with_content[sg]
           is_indefinite == <<t[1], t[2], p>> \in indefinite_retry_set
           max_attempts == IF is_indefinite THEN INDEFINITE_RETRY_MAX_ATTEMPTS
                           ELSE MAX_PAGE_ATTEMPTS
       IN IF past_retry_buffer(p, max_p)
          THEN /\ retry_queue' = Tail(retry_queue)
               /\ UNCHANGED <<dedupVars, failed_indefinite_segments, yielded,
                              attempts_made, gave_up>>
          ELSE \E res \in FetchResults(sg, p) :
               LET st == CommitFound([seen |-> seen, cat |-> seen_per_ruid_cat,
                                      rows |-> temp_rows], res.ids, sg)
               IN /\ yielded' = Yield(res, sg)
                  /\ attempts_made' =
                       [attempts_made EXCEPT ![<<t[1], t[2], p>>] = @ + 1]
                  /\ IF ~res.html \/ res.n = 0
                     THEN /\ retry_queue' =
                               IF can_retry(attempts, max_attempts)
                               THEN Append(Tail(retry_queue), <<t[1], t[2], p, attempts>>)
                               ELSE Tail(retry_queue)
                          /\ failed_indefinite_segments' =
                               IF ~can_retry(attempts, max_attempts) /\ is_indefinite
                               THEN failed_indefinite_segments \cup {sg}
                               ELSE failed_indefinite_segments
                          /\ gave_up' =
                               IF can_retry(attempts, max_attempts) THEN gave_up
                               ELSE gave_up \cup {<<t[1], t[2], p>>}
                          /\ UNCHANGED dedupVars
                     ELSE /\ retry_queue' = Tail(retry_queue)
                          /\ seen' = st.seen
                          /\ seen_per_ruid_cat' = st.cat
                          /\ temp_rows' = st.rows
                          /\ UNCHANGED <<failed_indefinite_segments, gave_up>>
    /\ UNCHANGED <<collectCfg, fileVars, walkVars, cpc, indefinite_retry_set,
                   max_page_with_content, failed_csv>>

\* One turn of while retry_queue (line 994-1060).
RetryStep ==
    /\ UNCHANGED notCollect
    /\ cpc = "retry" /\ retry_queue # <<>>
    /\ LET t == Head(retry_queue)
           sg == <<t[1], t[2]>>
           p == t[3]
           attempts == t[4]
           max_p == max_page_with_content[sg]
           is_indefinite == <<t[1], t[2], p>> \in indefinite_retry_set
           max_attempts == IF is_indefinite THEN INDEFINITE_RETRY_MAX_ATTEMPTS
                           ELSE MAX_PAGE_ATTEMPTS
       IN IF past_retry_buffer(p, max_p)
          THEN /\ retry_queue' = Tail(retry_queue)
               /\ UNCHANGED <<dedupVars, failed_indefinite_segments, yielded,
                              attempts_made, gave_up>>
          ELSE \E res \in FetchResults(sg, p) :
               LET st == CommitFound([seen |-> seen, cat |-> seen_per_ruid_cat,
                                      rows |-> temp_rows], res.ids, sg)
               IN /\ yielded' = Yield(res, sg)
                  /\ attempts_made' =
                       [attempts_made EXCEPT ![<<t[1], t[2], p>>] = @ + 1]
                  /\ IF ~res.html \/ res.n = 0
                     THEN /\ retry_queue' =
                               IF can_retry(attempts, max_attempts)
                               THEN Append(Tail(retry_queue), <<t[1], t[2], p, attempts + 1>>)
                               ELSE Tail(retry_queue)
                          /\ failed_indefinite_segments' =
                               IF ~can_retry(attempts, max_attempts) /\ is_indefinite
                               THEN failed_indefinite_segments \cup {sg}
                               ELSE failed_indefinite_segments
                          /\ gave_up' =
                               IF can_retry(attempts, max_attempts) THEN gave_up
                               ELSE gave_up \cup {<<t[1], t[2], p>>}
                          /\ UNCHANGED dedupVars
                     ELSE /\ retry_queue' = Tail(retry_queue)
                          /\ seen' = st.seen
                          /\ seen_per_ruid_cat' = st.cat
                          /\ temp_rows' = st.rows
                          /\ UNCHANGED <<failed_indefinite_segments, gave_up>>
    /\ UNCHANGED <<collectCfg, fileVars, walkVars, cpc, indefinite_retry_set,
                   max_page_with_content, failed_csv>>

\* The rows of failed_indefinite_retry.csv for a set of partitions
\* (line 1072-1074).
ReportRows(S) ==
    [i \in 1..Len(SortedKeys(S)) |->
       LET sg == SortedKeys(S)[i]
           names == get_category_and_subcategory_names(sg[1], sg[2])
       IN <<sg[1], sg[2], names[1], names[2]>>]

\* An end of the retry pass that writes the side report whether or not a
\* partition failed.
RetryEndAlwaysReports ==
    /\ UNCHANGED notCollect
    /\ cpc = "retry" /\ retry_queue = <<>>
    /\ cpc' = "merge"
    /\ failed_csv' = [exists |-> TRUE, rows |-> ReportRows(failed_indefinite_segments)]
    /\ UNCHANGED <<collectCfg, fileVars, dedupVars, drainVars, walkVars,
                   max_page_with_content, yielded,
                   attempts_made, gave_up>>

\* The queue is empty: side report, f.close() (line 1066-1078).
RetryEnd ==
    /\ UNCHANGED notCollect
    /\ cpc = "retry" /\ retry_queue = <<>>
    /\ cpc' = "merge"
    /\ failed_csv' = IF failed_indefinite_segments # {}
                     THEN [exists |-> TRUE, rows |-> ReportRows(failed_indefinite_segments)]
                     ELSE failed_csv
    /\ UNCHANGED <<collectCfg, fileVars, dedupVars, drainVars, walkVars,
                   max_page_with_content, yielded,
                   attempts_made, gave_up>>

\* The two copy loops of the merge (line 1092-1104 and 1108-1120).
RECURSIVE MergeRows(_, _, _)
MergeRows(todo, seen_merge, acc) ==
    IF todo = <<>> THEN [seen_merge |-> seen_merge, rows |-> acc]
    ELSE LET row == Head(todo) IN
         IF ~NameKnown(<<row[2], row[3]>>) \/ RowKey(row) \in seen_merge
         THEN MergeRows(Tail(todo), seen_merge, acc)
         ELSE MergeRows(Tail(todo), seen_merge \cup {RowKey(row)}, Append(acc, row))

MergedFile(existing_rows, new_rows) ==
    LET first == MergeRows(existing_rows, {}, <<>>)
    IN MergeRows(new_rows, first.seen_merge, first.rows).rows

\* line 1080-1121: existing + new rows go to a second temp file.
MergeWriteInPlace ==
    /\ UNCHANGED notCollect
    /\ cpc = "merge" /\ out_file.exists
    /\ out_file' = [exists |-> TRUE, rows |-> MergedFile(out_file.rows, temp_rows)]
    /\ temp_final' = MergedFile(out_file.rows, temp_rows)
    /\ cpc' = "replace"
    /\ UNCHANGED <<collectCfg, dedupVars, drainVars, walkVars,
                   max_page_with_content, yielded,
                   attempts_made, gave_up, failed_csv>>

MergeWrite ==
    /\ UNCHANGED notCollect
    /\ cpc = "merge" /\ out_file.exists
    /\ temp_final' = MergedFile(out_file.rows, temp_rows)
    /\ cpc' = "replace"
    /\ UNCHANGED <<collectCfg, out_file, dedupVars, drainVars, walkVars,
                   max_page_with_content, yielded,
                   attempts_made, gave_up, failed_csv>>

\* os.replace(temp_final, out_path) (line 1122), or, when there was no output
\* file, os.replace(temp_path, out_path) (line 1135).
Replace ==
    /\ UNCHANGED notCollect
    /\ cpc = IF out_file.exists THEN "replace" ELSE "merge"
    /\ out_file' = [exists |-> TRUE,
                    rows |-> IF cpc = "replace" THEN temp_final ELSE temp_rows]
    /\ cpc' = "done"
    /\ UNCHANGED <<collectCfg, temp_final, dedupVars, drainVars, walkVars,
                   max_page_with_content, yielded,
                   attempts_made, gave_up, failed_csv>>

\* ====================================================================
\* Collection: initial states and specifications
\* ====================================================================

\* main, line 874-911: the state when the first partition walk starts
\* (pages_per_category = 1 if args.test else None, line 876).
CollectStart(segs, nworkers, test) ==
    /\ workers \in nworkers
    /\ run = 1
    /\ segments_list = segs
    /\ pages_per_category = (IF test THEN 1 ELSE 0)
    /\ prior_out = out_file
    /\ cpc = "walk" /\ seg_idx = 1 /\ next_page = 1 /\ segment_done = FALSE
    /\ wpc = [w \in 1..workers |-> "claim"]
    /\ wpage = [w \in 1..workers |-> 0]
    /\ wfound = [w \in 1..workers |-> NoFound]
    /\ pages_done = 0 /\ retry_later = <<>>
    /\ seen = load_existing_ruids_from_csv(out_file)
    /\ seen_per_ruid_cat = {<<k[1], k[2]>> : k \in load_existing_ruids_from_csv(out_file)}
    /\ temp_rows = <<>> /\ temp_final = <<>>
    /\ global_retry_list = <<>>
    /\ max_page_with_content = [sg \in Segments |-> 0]
    /\ retry_queue = <<>> /\ indefinite_retry_set = {}
    /\ failed_indefinite_segments = {}
    /\ settled = {} /\ fetched_empty = {} /\ ended = {} /\ yielded = {}
    /\ attempts_made = <<>>
    /\ gave_up = {} /\ failed_csv = [exists |-> FALSE, rows |-> <<>>]

\* Sequences over S of length lo..hi.
SeqsOf(S, lo, hi) == UNION {[1..n -> S] : n \in lo..hi}

\* A listing has full pages and a last page one short of full; the RUID
\* "r" is on every page (the listing shifts while it is walked).
Listing(len) ==
    [i \in 1..len |->
       [n |-> IF i = len THEN MAX_ITEMS_PER_PAGE - 1 ELSE MAX_ITEMS_PER_PAGE,
        ids |-> <<"r">>]]

\* The requests the fake service may drop: every request a walk can make.
AnyRequest ==
    {<<sg, p>> : sg \in Segments,
                 p \in 1..(MaxStaleHint + MaxTruePages + SKEPTICAL_PAGE_BUFFER)}

\* A pool is explored with two workers on listings and hints of up to two
\* pages: the tickets of two workers that both run a tail of ten pages stand
\* in the list in any of 2^10 orders, and every page more doubles them.
PoolPages == IF MaxTruePages > 2 THEN 2 ELSE MaxTruePages

\* The pages of a partition walked on its own (--all-only): full, or one
\* short of full.
WalkPages ==
    {[n |-> MAX_ITEMS_PER_PAGE, ids |-> <<"r">>],
     [n |-> MAX_ITEMS_PER_PAGE - 1, ids |-> <<"r">>]}

\* One partition walked on its own, by the sequential walk or by a pool:
\* every listing of up to MaxTruePages pages of WalkPages in any order,
\* every last_page hint up to MaxTruePages, every number of workers up to
\* MaxWorkers, and a service that may drop any request.  Past two pages
\* the listing is walked by one worker only, and a pool of more than two
\* workers walks the one-page listing on a service that drops nothing.
InitWalk ==
    /\ SearchIdle /\ EnrichIdle /\ DiscoverIdle /\ ThrottleIdle /\ SetupIdle
    /\ \E pages \in SeqsOf(WalkPages, 0, MaxTruePages) :
         svc = [sg \in Segments |-> IF sg = <<0, -1>> THEN pages ELSE <<>>]
    /\ \E hint \in 1..MaxTruePages :
         last_pages = [sg \in Segments |-> hint]
    /\ out_file = [exists |-> FALSE, rows |-> <<>>]
    /\ CollectStart(iter_segments(<<0>>, TRUE), 1..MaxWorkers, FALSE)
    /\ workers > 1 =>
          /\ Len(svc[<<0, -1>>]) <= PoolPages
          /\ last_pages[<<0, -1>>] <= PoolPages
    /\ workers > 2 =>
          /\ Len(svc[<<0, -1>>]) = 1 /\ svc[<<0, -1>>][1].n < MAX_ITEMS_PER_PAGE
          /\ last_pages[<<0, -1>>] = 1
    /\ fetch_fails = IF workers > 2 THEN {} ELSE AnyRequest

NextWalk ==
    \/ \E w \in Workers : Claim(w)
    \/ \E w \in Workers : FetchReturn(w)
    \/ \E w \in Workers : TicketPage(w)
    \/ \E w \in Workers : CommitMaxPage(w)
    \/ \E w \in Workers : CommitRuid(w)
    \/ \E w \in Workers : MarkLast(w)
    \/ SegmentJoin
    \/ SeqPage
    \/ SeqEnd

SpecWalk == InitWalk /\ [][NextWalk]_vars

\* ---- claims on the page walk ----

\* Tickets the walk holds for the current partition: tuples of the global
\* list (parallel walk), entries of retry_later (sequential walk).
TicketedPages ==
    {global_retry_list[i][3] :
        i \in {j \in 1..Len(global_retry_list) :
                 /\ <<global_retry_list[j][1], global_retry_list[j][2]>> = Seg
                 /\ global_retry_list[j][4] = 1}}
    \cup {retry_later[i][1] : i \in 1..Len(retry_later)}

\* C7: a page is treated as the final page of its partition only if its
\* record count is below 150 and its page number is >= the last_page hint
\* (so a page with 150 or more records, and a page with 1..149 records
\* below the hint, never marks the partition done).
C7_FinalPagePolicy ==
    \A e \in ended : /\ e.count < MAX_ITEMS_PER_PAGE
                     /\ e.page >= last_pages[e.seg]

\* A page was treated as final after a page with 1..149 records below the
\* hint was committed and the walk went on.
C7_Witness ==
    \E e \in ended : \E p \in settled \ fetched_empty :
        /\ p < e.page /\ p < last_pages[e.seg]
        /\ PageAt(e.seg, p).n \in 1..(MAX_ITEMS_PER_PAGE - 1)

\* Pages of the current partition below a page that was treated as final.
BelowFinalPage ==
    {p \in ClaimedPages : \E e \in ended : e.seg = Seg /\ p < e.page}

\* C8: a page whose fetch fails or yields zero records never ends the walk
\* by itself: it gets a retry ticket (partition, page, attempt 1).  Stated
\* for the pages below the page that ended the walk.
C8_EmptyPageGetsTicket ==
    /\ \A e \in ended : e.count > 0
    /\ cpc = "walk" => (fetched_empty \cap BelowFinalPage) \subseteq TicketedPages

\* C9: when every worker of a partition walk has returned, every page
\* number claimed in the walk is committed or has a retry ticket.  Stated
\* for the case the claim singles out: the pages below the page on which the
\* partition was marked done.
C9_ClaimedPagesSettled ==
    (cpc = "walk" /\ \A w \in Workers : wpc[w] = "returned")
        => BelowFinalPage \subseteq settled

\* Pages whose fetch is in flight, and the workers that hold them.
Fetching == {w \in Workers : wpc[w] = "fetching"}
InFlight == {wpage[w] : w \in Fetching}

\* C15: within one partition walk page numbers are claimed strictly
\* increasing from 1 with no gap and no double claim: no two workers hold
\* the same page, no page that was processed is held again, every page held
\* or processed is below the cursor, and (until the partition is marked
\* done) every page below the cursor is held or processed.
C15_ClaimsInOrder ==
    cpc = "walk" =>
        /\ \A v, w \in Fetching : v # w => wpage[v] # wpage[w]
        /\ InFlight \cap settled = {}
        /\ (InFlight \cup settled) \subseteq 1..(next_page - 1)
        /\ ~segment_done => (InFlight \cup settled) = 1..(next_page - 1)

\* Two fetches are in flight while a page above one of them has completed.
C15_Witness ==
    /\ cpc = "walk" /\ Cardinality(Fetching) >= 2
    /\ \E w \in Fetching : \E p \in settled : p > wpage[w]

\* C17: during the primary walk of a partition no page with a number above
\* last_page hint + 10 (the skeptical buffer) is fetched.
C17_HardCap ==
    cpc = "walk" =>
        \A p \in InFlight \cup settled :
            p <= last_pages[Seg] + SKEPTICAL_PAGE_BUFFER

\* The walk has fetched the page at the cap and every worker has returned.
C17_Witness ==
    /\ cpc = "walk"
    /\ (last_pages[Seg] + SKEPTICAL_PAGE_BUFFER) \in settled
    /\ \A w \in Workers : wpc[w] = "returned"

\* Output files a run can start from: none, a row of the catch-all as an
\* earlier run wrote it (the RUID spelled in upper case), an enriched row of
\* the specific subcategory.
ExistingFiles ==
    {[exists |-> FALSE, rows |-> <<>>],
     [exists |-> TRUE, rows |-> << <<"R", "sprite", "all", "", "", "">> >>],
     [exists |-> TRUE, rows |-> << <<"r", "sprite", "object", "d", "f", "t">> >>]}

\* A whole run with a pool is explored with two workers; larger pools are
\* explored in SpecWalk.
CollectWorkers == 1..(IF MaxWorkers > 2 THEN 2 ELSE MaxWorkers)

\* A run with --workers 1 over both partitions of the category, against a
\* service that may drop any request: main walks each partition with
\* _process_one_segment (line 925-947).
InitCollect ==
    /\ SearchIdle /\ EnrichIdle /\ DiscoverIdle /\ ThrottleIdle /\ SetupIdle
    /\ \E len \in 1..MaxTruePages :
         svc = [sg \in Segments |-> IF sg = <<0, -1>> THEN Listing(len)
                                    ELSE Listing(1)]
    /\ last_pages = [sg \in Segments |-> Len(svc[sg])]
    /\ out_file \in ExistingFiles
    /\ CollectStart(iter_segments(<<0>>, FALSE), {1}, FALSE)
    /\ fetch_fails = AnyRequest

\* main with --workers 1: the sequential walk of each partition, the retry
\* pass, the merge, the replace.
NextSequential ==
    \/ SeqPage
    \/ SeqEnd
    \/ RetryStep
    \/ RetryEnd
    \/ MergeWrite
    \/ Replace

\* main with any --workers.
NextCollect ==
    \/ NextWalk
    \/ RetryStep
    \/ RetryEnd
    \/ MergeWrite
    \/ Replace

SpecCollect == InitCollect /\ [][NextSequential]_vars

\* A run with --all-only (the catch-all partition alone) by the sequential
\* walk or a pool of two, against a service that may drop any request; the
\* boundary table says one page.
AllOnlyRun(listings, files) ==
    /\ SearchIdle /\ EnrichIdle /\ DiscoverIdle /\ ThrottleIdle /\ SetupIdle
    /\ \E pages \in listings :
         svc = [sg \in Segments |-> IF sg = <<0, -1>> THEN pages ELSE <<>>]
    /\ last_pages = [sg \in Segments |-> 1]
    /\ out_file \in files
    /\ CollectStart(iter_segments(<<0>>, TRUE), CollectWorkers, FALSE)
    /\ fetch_fails = AnyRequest

\* A listing of PoolPages pages on each of which the model follows two
\* RUIDs, "q" and "r".
TwoRuids ==
    [i \in 1..PoolPages |-> [n |-> Listing(PoolPages)[i].n, ids |-> <<"q", "r">>]]

\* The output files an earlier run with --all-only leaves: none, or rows of
\* the catch-all.
AllOnlyFiles ==
    {f \in ExistingFiles : \A i \in 1..Len(f.rows) : f.rows[i][3] = "all"}

\* Listings of one page and up, from no output file or from the output of
\* an earlier run with --all-only.
InitAllOnly ==
    AllOnlyRun({Listing(len) : len \in 1..PoolPages} \cup {TwoRuids},
               AllOnlyFiles)

\* A listing with a page above page 1, so that a failed page can have a
\* later page with records, on top of the output of an earlier run; the
\* main thread and the workers keep being scheduled.
InitAllOnlyFair ==
    AllOnlyRun({Listing(PoolPages)}, {f \in AllOnlyFiles : f.exists})

SpecAllOnlyFair ==
    InitAllOnlyFair /\ [][NextCollect]_vars /\ WF_vars(NextCollect)

SpecAllOnly == InitAllOnly /\ [][NextCollect]_vars

\* A second run of main over the output of the first, against the same
\* service, last_pages.csv and --workers (line 885-911 again).
StartSecondRun ==
    /\ UNCHANGED notCollect
    /\ cpc = "done" /\ run = 1
    /\ run' = 2
    /\ prior_out' = out_file
    /\ cpc' = "walk" /\ seg_idx' = 1 /\ next_page' = 1 /\ segment_done' = FALSE
    /\ wpc' = [w \in Workers |-> "claim"]
    /\ wpage' = [w \in Workers |-> 0]
    /\ wfound' = [w \in Workers |-> NoFound]
    /\ pages_done' = 0 /\ retry_later' = <<>>
    /\ seen' = load_existing_ruids_from_csv(out_file)
    /\ seen_per_ruid_cat' =
         {<<k[1], k[2]>> : k \in load_existing_ruids_from_csv(out_file)}
    /\ temp_rows' = <<>> /\ temp_final' = <<>>
    /\ global_retry_list' = <<>>
    /\ max_page_with_content' = [sg \in Segments |-> 0]
    /\ retry_queue' = <<>> /\ indefinite_retry_set' = {}
    /\ failed_indefinite_segments' = {}
    /\ settled' = {} /\ fetched_empty' = {} /\ ended' = {} /\ yielded' = {}
    /\ attempts_made' = <<>>
    /\ gave_up' = {} /\ UNCHANGED failed_csv
    /\ UNCHANGED <<svc, fetch_fails, workers, last_pages, segments_list,
                   pages_per_category, out_file>>

\* Two runs against a service that answers every request with the page it
\* holds: what differs between the runs is the interleaving of the workers.
InitRerun ==
    /\ SearchIdle /\ EnrichIdle /\ DiscoverIdle /\ ThrottleIdle /\ SetupIdle
    /\ fetch_fails = {}
    /\ \E len \in 1..MaxTruePages :
         svc = [sg \in Segments |-> IF sg = <<0, -1>> THEN Listing(len)
                                    ELSE Listing(1)]
    /\ last_pages = [sg \in Segments |-> Len(svc[sg])]
    /\ out_file \in ExistingFiles
    /\ CollectStart(iter_segments(<<0>>, FALSE), CollectWorkers, FALSE)

NextRerun ==
    \/ NextCollect
    \/ StartSecondRun

SpecRerun == InitRerun /\ [][NextRerun]_vars

\* ---- claims on a whole collection run ----

\* Rows of a file for RUID ruid (in any spelling) under the names of seg.
RowsFor(file_rows, ruid, seg) ==
    {i \in 1..Len(file_rows) :
        /\ Lower(file_rows[i][1]) = ruid
        /\ <<file_rows[i][2], file_rows[i][3]>> =
              get_category_and_subcategory_names(seg[1], seg[2])}

\* C1: after a run, a RUID yielded by a page of the specific subcategory and
\* by a page of the catch-all of the same category has exactly one row under
\* the specific subcategory and no row under the catch-all.  Stated for runs
\* that start without an output file.
C1_DedupLaw ==
    (cpc = "done" /\ ~prior_out.exists) =>
        \A sg \in Segments :
            (/\ sg[2] # -1
             /\ <<"r", sg>> \in yielded
             /\ <<"r", <<sg[1], -1>>>> \in yielded)
            => /\ Cardinality(RowsFor(out_file.rows, "r", sg)) = 1
               /\ RowsFor(out_file.rows, "r", <<sg[1], -1>>) = {}

\* C14: a record key (record id, category, subcategory) is appended to the
\* output at most once in a run, and never when the key is in the output
\* file the run started from.
C14_AtMostOnce ==
    /\ \A i, j \in 1..Len(temp_rows) :
          i # j => RowKey(temp_rows[i]) # RowKey(temp_rows[j])
    /\ \A i \in 1..Len(temp_rows) :
          RowKey(temp_rows[i]) \notin load_existing_ruids_from_csv(prior_out)

\* A run has ended in which two pages of the catch-all yielded the same
\* RUID, the catch-all key of that RUID was in the existing output, and a
\* row of another key was appended.
C14_Witness ==
    /\ cpc = "done" /\ temp_rows # <<>>
    /\ max_page_with_content[<<0, -1>>] >= 2
    /\ <<"r", <<0, -1>>>> \in yielded
    /\ <<"r", 0, -1>> \in load_existing_ruids_from_csv(prior_out)

\* The attempt limit of a ticket: 5 when a later page of its partition
\* yielded records, 2 otherwise.
AttemptLimit(key) ==
    IF max_page_with_content[<<key[1], key[2]>>] > key[3]
    THEN INDEFINITE_RETRY_MAX_ATTEMPTS ELSE MAX_PAGE_ATTEMPTS

\* C19: the page of a retry ticket is attempted at most 5 times in a run
\* (the primary attempt included) if a later page of its partition yielded
\* records and at most 2 times otherwise, and a ticket waits in the retry
\* queue only while its attempt count is below that limit.
C19_AttemptBound ==
    /\ \A key \in DOMAIN attempts_made : attempts_made[key] <= AttemptLimit(key)
    /\ \A i \in 1..Len(retry_queue) :
         LET t == retry_queue[i]
             key == <<t[1], t[2], t[3]>>
         IN /\ t[4] = attempts_made[key]
            /\ t[4] < AttemptLimit(key)

\* The retry pass is over; one ticket below a page with records used all 5
\* attempts and one ticket above every page with records used its 2.
C19_Witness ==
    /\ cpc = "merge"
    /\ \E key \in DOMAIN attempts_made :
         /\ attempts_made[key] = INDEFINITE_RETRY_MAX_ATTEMPTS
         /\ max_page_with_content[<<key[1], key[2]>>] > key[3]
    /\ \E key \in DOMAIN attempts_made :
         /\ attempts_made[key] = MAX_PAGE_ATTEMPTS
         /\ max_page_with_content[<<key[1], key[2]>>] <= key[3]

\* Runs with --workers 1 in which the catch-all listing has a page above
\* page 1, so that a failed page can have a later page with records, on top
\* of the output of an earlier run; the main thread keeps being scheduled.
InitSoft ==
    /\ SearchIdle /\ EnrichIdle /\ DiscoverIdle /\ ThrottleIdle /\ SetupIdle
    /\ svc = [sg \in Segments |-> IF sg = <<0, -1>> THEN Listing(MaxTruePages)
                                  ELSE Listing(1)]
    /\ last_pages = [sg \in Segments |-> Len(svc[sg])]
    /\ out_file \in {f \in ExistingFiles : f.rows # <<>> /\ f.rows[1][1] = "R"}
    /\ CollectStart(iter_segments(<<0>>, FALSE), {1}, FALSE)
    /\ fetch_fails = AnyRequest

SpecSoft == InitSoft /\ [][NextSequential]_vars /\ WF_vars(NextSequential)

\* Partitions with an indefinite-retry ticket (a later page of the partition
\* yielded records in the walk) that was dropped after its last allowed
\* attempt yielded nothing.
ExhaustedSegments ==
    {<<key[1], key[2]>> :
        key \in {k \in gave_up : max_page_with_content[<<k[1], k[2]>>] > k[3]}}

ReportedSegments == {<<failed_csv.rows[i][1], failed_csv.rows[i][2]>> :
                        i \in 1..Len(failed_csv.rows)}

\* Once the retry pass is over the side report lists exactly the partitions
\* with an exhausted indefinite-retry ticket, and there is a report only if
\* there is such a partition.
SideReportExact ==
    cpc \in {"merge", "replace", "done"} =>
        /\ ReportedSegments = ExhaustedSegments
        /\ failed_csv.exists <=> ExhaustedSegments # {}

\* C21: a partition is written to the side report if and only if one of its
\* indefinite-retry tickets used up all its attempts without yielding
\* records, and a run that wrote the report still merges, replaces the
\* output and returns 0.
C21_SoftFailure ==
    /\ []SideReportExact
    /\ failed_csv.exists ~> (cpc = "done" /\ out_file.exists)

\* The run has returned 0 with a side report and an output that holds rows
\* of this run.
C21_Witness ==
    /\ cpc = "done" /\ failed_csv.exists /\ temp_rows # <<>>
    /\ ExhaustedSegments # {}

\* ---- the end of a collection run ----

\* max_attempts of a ticket (line 1003-1004).
TicketLimit(t) ==
    IF <<t[1], t[2], t[3]>> \in indefinite_retry_set
    THEN INDEFINITE_RETRY_MAX_ATTEMPTS ELSE MAX_PAGE_ATTEMPTS

\* A turn of the retry pass takes the head ticket off the queue and puts at
\* most that ticket back, with one attempt more and below its limit.
TicketRises ==
    (cpc = "retry" /\ retry_queue' # retry_queue) =>
        LET t == Head(retry_queue) IN
        \/ retry_queue' = Tail(retry_queue)
        \/ /\ retry_queue' = Append(Tail(retry_queue), <<t[1], t[2], t[3], t[4] + 1>>)
           /\ t[4] + 1 < TicketLimit(t)

\* Every ticket of the queue has made at least one attempt and fewer than
\* its limit.
TicketsBounded ==
    cpc = "retry" =>
        \A i \in 1..Len(retry_queue) :
            retry_queue[i][4] >= 1 /\ retry_queue[i][4] < TicketLimit(retry_queue[i])

\* The cursor of a walk never goes further than one page past the cap, and
\* a worker of the pool has returned only with the partition marked done.
WalkBounded ==
    cpc = "walk" =>
        /\ next_page <= seg_cap + 1
        /\ workers > 1 => \A w \in Workers : wpc[w] = "returned" => segment_done

\* C38: a collection run always terminates: every worker of every partition
\* walk returns (the cursor has passed the cap or the partition is marked
\* done), and the retry queue empties because a ticket is re-queued only
\* with a strictly larger attempt count below its limit; every fetch
\* returns.
C38_CollectTerminates ==
    /\ []WalkBounded
    /\ []TicketsBounded
    /\ [][TicketRises]_vars
    /\ <>(cpc = "done" /\ retry_queue = <<>> /\ \A w \in Workers : wpc[w] = "returned")

\* A run with a pool of workers is over in which a ticket was re-queued
\* up to its last allowed attempt.
C38_Witness ==
    /\ cpc = "done" /\ workers > 1 /\ retry_queue = <<>>
    /\ gave_up # {}
    /\ \E k \in DOMAIN attempts_made : attempts_made[k] >= MAX_PAGE_ATTEMPTS

\* The rows of a file as a set.
RowSet(file) == {file.rows[i] : i \in 1..Len(file.rows)}

\* C6: a second run against the unchanged service, over the output of the
\* first, leaves an output file with the identical set of rows.
C6_SecondRunSameRows ==
    (run = 2 /\ cpc = "done") => RowSet(out_file) = RowSet(prior_out)

\* ====================================================================
\* Enrichment: rows, keys, the writer's operators
\* ====================================================================

\* RUID spellings of the model.  "a", "b", "c", "z" stand for 32-hex ids,
\* "A" for "a" in upper case, "x" for an id of fewer than 32 hex characters.
normalize_ruid(ruid) == IF ruid = "A" THEN "a" ELSE ruid

\* len(_normalize_ruid(ruid)) < 32
IsShort(ruid) == normalize_ruid(ruid) \in {"", "x"}

\* str.strip() on the field spellings of the model.
Strip(str) == IF str = "all " THEN "all" ELSE str

\* _row_key
row_key(row) == <<normalize_ruid(row[1]), Strip(row[2]), Strip(row[3])>>

\* _row_has_enrichment: Date or Format or Tags or "", stripped, is not empty.
row_has_enrichment(row) ==
    LET first == IF row[4] # "" THEN row[4]
                 ELSE IF row[5] # "" THEN row[5] ELSE row[6]
    IN Strip(first) # ""

\* _load_existing_output, the loop over the rows of the file: a later row
\* replaces an earlier one of the same key in the dict.
RECURSIVE LoadExisting(_, _)
LoadExisting(todo, acc) ==
    IF todo = <<>> THEN acc
    ELSE LET row == Head(todo)
             key == row_key(row)
         IN LoadExisting(Tail(todo),
              [already_enriched |->
                   IF row_has_enrichment(row)
                   THEN acc.already_enriched \cup {key}
                   ELSE acc.already_enriched,
               output_rows_dict |->
                   [k \in DOMAIN acc.output_rows_dict \cup {key} |->
                        IF k = key THEN row ELSE acc.output_rows_dict[k]]])

load_existing_output(file) ==
    IF ~file.exists THEN [already_enriched |-> {}, output_rows_dict |-> <<>>]
    ELSE LoadExisting(file.rows, [already_enriched |-> {}, output_rows_dict |-> <<>>])

\* A selection that takes every RUID of the input, enriched or not.
RECURSIVE SelectNeededAll(_, _, _, _)
SelectNeededAll(todo, enriched_keys, forced, acc) ==
    IF todo = <<>> THEN acc
    ELSE LET row == Head(todo)
             ruid == normalize_ruid(row[1])
             has == \E i \in 1..Len(acc) : acc[i] = ruid
             take == /\ ~IsShort(row[1])
                     /\ (forced \/ row_key(row) \notin {})
                     /\ ~has
         IN SelectNeededAll(Tail(todo), enriched_keys, forced,
                         IF take THEN Append(acc, ruid) ELSE acc)

\* main, line 344-368: the RUIDs to fetch, in order of first appearance.
RECURSIVE SelectNeeded(_, _, _, _)
SelectNeeded(todo, enriched_keys, forced, acc) ==
    IF todo = <<>> THEN acc
    ELSE LET row == Head(todo)
             ruid == normalize_ruid(row[1])
             has == \E i \in 1..Len(acc) : acc[i] = ruid
             take == /\ ~IsShort(row[1])
                     /\ (forced \/ row_key(row) \notin enriched_keys)
                     /\ ~has
         IN SelectNeeded(Tail(todo), enriched_keys, forced,
                         IF take THEN Append(acc, ruid) ELSE acc)

\* dict lookup and dict.update for the writer's enriched dict.
Has(dict, ruid) == \E i \in 1..Len(dict) : dict[i][1] = ruid
Get(dict, ruid) == IF Has(dict, ruid)
                   THEN dict[CHOOSE i \in 1..Len(dict) : dict[i][1] = ruid][2]
                   ELSE <<>>
Update(dict, item) ==
    IF Has(dict, item.ruid)
    THEN [i \in 1..Len(dict) |-> IF dict[i][1] = item.ruid
                                 THEN <<item.ruid, item.info>> ELSE dict[i]]
    ELSE Append(dict, <<item.ruid, item.info>>)

\* A _write_row that prefers the row of the existing output to fresh detail.
write_row_prefers_existing(row, info, rows_dict) ==
    IF row_key(row) \in DOMAIN rows_dict
       /\ row_has_enrichment(rows_dict[row_key(row)])
    THEN rows_dict[row_key(row)]
    ELSE IF info # <<>>
    THEN <<row[1], row[2], row[3], info[1], info[2], info[3]>>
    ELSE row

\* _write_row: the row written for an input row.  info is <<>> for None.
write_row(row, info, rows_dict) ==
    IF info # <<>>
    THEN <<row[1], row[2], row[3], info[1], info[2], info[3]>>
    ELSE IF row_key(row) \in DOMAIN rows_dict
            /\ row_has_enrichment(rows_dict[row_key(row)])
    THEN rows_dict[row_key(row)]
    ELSE row

\* _writer_worker, line 236-246: write the consecutive rows whose RUID has a
\* result.  st = [next_row, temp_out].
RECURSIVE drain_skips_missing(_, _)
drain_skips_missing(dict, st) ==
    IF st.next_row >= Len(rows) THEN st
    ELSE LET row == rows[st.next_row + 1]
             ruid == normalize_ruid(row[1])
         IN drain_skips_missing(dict,
              [next_row |-> st.next_row + 1,
               temp_out |-> IF Has(dict, ruid)
                            THEN Append(st.temp_out,
                                   write_row(row, Get(dict, ruid), output_rows_dict))
                            ELSE st.temp_out])

RECURSIVE drain(_, _)
drain(dict, st) ==
    IF st.next_row >= Len(rows) THEN st
    ELSE LET row == rows[st.next_row + 1]
             ruid == normalize_ruid(row[1])
         IN IF ~Has(dict, ruid) THEN st
            ELSE drain(dict,
                   [next_row |-> st.next_row + 1,
                    temp_out |-> Append(st.temp_out,
                                   write_row(row, Get(dict, ruid), output_rows_dict))])

\* A flush that stops one row short of the end of the input.
RECURSIVE flush_rest_but_last(_, _)
flush_rest_but_last(dict, st) ==
    IF st.next_row >= Len(rows) - 1 THEN st
    ELSE LET row == rows[st.next_row + 1]
             ruid == normalize_ruid(row[1])
         IN flush_rest_but_last(dict,
              [next_row |-> st.next_row + 1,
               temp_out |-> Append(st.temp_out,
                              write_row(row, Get(dict, ruid), output_rows_dict))])

\* _writer_worker, line 251-256: after the sentinel, write every remaining row.
RECURSIVE flush_rest(_, _)
flush_rest(dict, st) ==
    IF st.next_row >= Len(rows) THEN st
    ELSE LET row == rows[st.next_row + 1]
             ruid == normalize_ruid(row[1])
         IN flush_rest(dict,
              [next_row |-> st.next_row + 1,
               temp_out |-> Append(st.temp_out,
                              write_row(row, Get(dict, ruid), output_rows_dict))])

\* ====================================================================
\* Enrichment: main, the fetch workers, the writer thread
\* ====================================================================

\* (date, format, tags) a detail fetch can return: all fields, only a date,
\* no field at all (a match without mtime, extension or tags).
Infos == {<<"D", "F", "T">>, <<"D", "", "">>, <<"", "", "">>}

\* fetch_one: {} (here <<>>) on any failure or when there is no match, else
\* the parsed first match.
fetch_one(ruid) == IF IsShort(ruid) THEN {<<>>} ELSE {<<>>} \cup Infos

\* _WRITER_DONE, and a result dict {ruid: info} on the queue.
WRITER_DONE == [done |-> TRUE, ruid |-> "", info |-> <<>>]
Result(ruid, info) == [done |-> FALSE, ruid |-> ruid, info |-> info]

\* result_queue.put(result) when the result is not empty.
Put(q, ruid, info) == IF info # <<>> THEN Append(q, Result(ruid, info)) ELSE q

FetchWorkers == 1..enrich_workers

\* fetch_calls after one more call of fetch_one for ruid.
Called(calls, ruid) ==
    (ruid :> (IF ruid \in DOMAIN calls THEN calls[ruid] + 1 ELSE 1)) @@ calls
mainCfg == <<rows, force, enrich_workers>>
loadedVars == <<output_rows_dict, already_enriched, unique_needed>>
writerVars == <<enriched, next_row, temp_out, wrpc>>
poolVars == <<next_index, fwpc, fwi>>

\* A main that writes the input rows whenever there is nothing to fetch.
EnrichMainRewrites ==
    /\ UNCHANGED notEnrich
    /\ mpc = "start"
    /\ LET loaded == load_existing_output(out_file)
           needed == SelectNeeded(rows, loaded.already_enriched, force, <<>>)
       IN /\ output_rows_dict' = loaded.output_rows_dict
          /\ already_enriched' = loaded.already_enriched
          /\ unique_needed' = needed
          /\ IF needed = <<>>
             THEN /\ mpc' = "done"
                  /\ out_file' = [exists |-> TRUE, rows |-> rows]
                  /\ UNCHANGED wrpc
             ELSE /\ mpc' = "preflight"
                  /\ wrpc' = "get"
                  /\ UNCHANGED out_file
    /\ UNCHANGED <<mainCfg, prior_out, poolVars, result_queue, enriched,
                   next_row, temp_out>>
    /\ UNCHANGED fetch_calls

\* main, line 322-402: load the existing output, select the RUIDs to fetch;
\* nothing to fetch: leave an existing output alone or write the input rows
\* (line 378-389); else start the writer thread.
EnrichMain ==
    /\ UNCHANGED notEnrich
    /\ mpc = "start"
    /\ LET loaded == load_existing_output(out_file)
           needed == SelectNeeded(rows, loaded.already_enriched, force, <<>>)
       IN /\ output_rows_dict' = loaded.output_rows_dict
          /\ already_enriched' = loaded.already_enriched
          /\ unique_needed' = needed
          /\ IF needed = <<>>
             THEN /\ mpc' = "done"
                  /\ out_file' = IF out_file.exists THEN out_file
                                 ELSE [exists |-> TRUE, rows |-> rows]
                  /\ UNCHANGED wrpc
             ELSE /\ mpc' = "preflight"
                  /\ wrpc' = "get"
                  /\ UNCHANGED out_file
    /\ UNCHANGED <<mainCfg, prior_out, poolVars, result_queue, enriched,
                   next_row, temp_out>>
    /\ UNCHANGED fetch_calls

\* A pre-flight after which the cursor still stands on the first RUID.
PreflightLeavesCursor ==
    /\ UNCHANGED notEnrich
    /\ mpc = "preflight"
    /\ \E info \in fetch_one(unique_needed[1]), ok \in BOOLEAN :
         result_queue' = IF ok THEN Put(result_queue, unique_needed[1], info)
                         ELSE result_queue
    /\ next_index' = 0
    /\ mpc' = IF enrich_workers <= 1 THEN "seq" ELSE "pool"
    /\ UNCHANGED <<mainCfg, outVars, loadedVars, writerVars, fwpc, fwi>>
    /\ fetch_calls' = Called(fetch_calls, unique_needed[1])

\* main, line 404-432: the pre-flight fetch of unique_needed[0]; ok = FALSE
\* is the join timing out.  Either way main goes on to the other RUIDs.
Preflight ==
    /\ UNCHANGED notEnrich
    /\ mpc = "preflight"
    /\ \E info \in fetch_one(unique_needed[1]), ok \in BOOLEAN :
         result_queue' = IF ok THEN Put(result_queue, unique_needed[1], info)
                         ELSE result_queue
    /\ next_index' = 1
    /\ mpc' = IF enrich_workers <= 1 THEN "seq" ELSE "pool"
    /\ UNCHANGED <<mainCfg, outVars, loadedVars, writerVars, fwpc, fwi>>
    /\ fetch_calls' = Called(fetch_calls, unique_needed[1])

\* main, line 493-503: workers <= 1, one turn of the loop (do_one_and_put).
SeqFetch ==
    /\ UNCHANGED notEnrich
    /\ mpc = "seq" /\ next_index < Len(unique_needed)
    /\ \E info \in fetch_one(unique_needed[next_index + 1]) :
         result_queue' = Put(result_queue, unique_needed[next_index + 1], info)
    /\ next_index' = next_index + 1
    /\ UNCHANGED <<mainCfg, outVars, loadedVars, writerVars, mpc, fwpc, fwi>>
    /\ fetch_calls' = Called(fetch_calls, unique_needed[next_index + 1])

\* main, line 504: the sentinel after the sequential loop.
SeqSentinel ==
    /\ UNCHANGED notEnrich
    /\ mpc = "seq" /\ next_index >= Len(unique_needed)
    /\ result_queue' = Append(result_queue, WRITER_DONE)
    /\ mpc' = "join"
    /\ UNCHANGED <<mainCfg, outVars, loadedVars, writerVars, poolVars>>
    /\ UNCHANGED fetch_calls

\* A worker that takes the index under the cursor and leaves the cursor.
TakeNextKeepsCursor(w) ==
    /\ UNCHANGED notEnrich
    /\ mpc = "pool" /\ fwpc[w] = "take"
    /\ IF next_index >= Len(unique_needed)
       THEN /\ fwpc' = [fwpc EXCEPT ![w] = "returned"]
            /\ UNCHANGED <<next_index, fwi>>
       ELSE /\ fwi' = [fwi EXCEPT ![w] = next_index]
            /\ next_index' = next_index
            /\ fwpc' = [fwpc EXCEPT ![w] = "fetch"]
    /\ UNCHANGED <<mainCfg, outVars, loadedVars, writerVars, mpc, result_queue>>
    /\ UNCHANGED fetch_calls

\* worker_take_next, line 459-464: take the next index under the lock.
TakeNext(w) ==
    /\ UNCHANGED notEnrich
    /\ mpc = "pool" /\ fwpc[w] = "take"
    /\ IF next_index >= Len(unique_needed)
       THEN /\ fwpc' = [fwpc EXCEPT ![w] = "returned"]
            /\ UNCHANGED <<next_index, fwi>>
       ELSE /\ fwi' = [fwi EXCEPT ![w] = next_index]
            /\ next_index' = next_index + 1
            /\ fwpc' = [fwpc EXCEPT ![w] = "fetch"]
    /\ UNCHANGED <<mainCfg, outVars, loadedVars, writerVars, mpc, result_queue>>
    /\ UNCHANGED fetch_calls

\* worker_take_next, line 465-476: fetch_one and result_queue.put.
FetchDetail(w) ==
    /\ UNCHANGED notEnrich
    /\ mpc = "pool" /\ fwpc[w] = "fetch"
    /\ \E info \in fetch_one(unique_needed[fwi[w] + 1]) :
         result_queue' = Put(result_queue, unique_needed[fwi[w] + 1], info)
    /\ fwpc' = [fwpc EXCEPT ![w] = "take"]
    /\ fwi' = [fwi EXCEPT ![w] = 0]
    /\ UNCHANGED <<mainCfg, outVars, loadedVars, writerVars, mpc, next_index>>
    /\ fetch_calls' = Called(fetch_calls, unique_needed[fwi[w] + 1])

\* A sentinel put while fetch workers are still at work.
PoolSentinelEarly ==
    /\ UNCHANGED notEnrich
    /\ mpc = "pool"
    /\ result_queue' = Append(result_queue, WRITER_DONE)
    /\ mpc' = "join"
    /\ UNCHANGED <<mainCfg, outVars, loadedVars, writerVars, poolVars>>
    /\ UNCHANGED fetch_calls

\* main, line 513-535: every future is done; the sentinel.
PoolSentinel ==
    /\ UNCHANGED notEnrich
    /\ mpc = "pool" /\ \A w \in FetchWorkers : fwpc[w] = "returned"
    /\ result_queue' = Append(result_queue, WRITER_DONE)
    /\ mpc' = "join"
    /\ UNCHANGED <<mainCfg, outVars, loadedVars, writerVars, poolVars>>
    /\ UNCHANGED fetch_calls

\* _writer_worker, line 229-248: one item of the queue.
WriterGet ==
    /\ UNCHANGED notEnrich
    /\ wrpc = "get" /\ result_queue # <<>>
    /\ result_queue' = Tail(result_queue)
    /\ LET item == Head(result_queue)
           dict == Update(enriched, item)
           st == drain(dict, [next_row |-> next_row, temp_out |-> temp_out])
       IN IF item.done
          THEN /\ wrpc' = "flush"
               /\ UNCHANGED <<enriched, next_row, temp_out>>
          ELSE /\ enriched' = dict
               /\ next_row' = st.next_row
               /\ temp_out' = st.temp_out
               /\ UNCHANGED wrpc
    /\ UNCHANGED <<mainCfg, outVars, loadedVars, poolVars, mpc>>
    /\ UNCHANGED fetch_calls

\* _writer_worker, line 251-257: the rows not written yet.
WriterFlush ==
    /\ UNCHANGED notEnrich
    /\ wrpc = "flush"
    /\ LET st == flush_rest(enriched, [next_row |-> next_row, temp_out |-> temp_out])
       IN next_row' = st.next_row /\ temp_out' = st.temp_out
    /\ wrpc' = "replace"
    /\ UNCHANGED <<mainCfg, outVars, loadedVars, poolVars, mpc, result_queue, enriched>>
    /\ UNCHANGED fetch_calls

\* _writer_worker, line 258: os.replace(temp_path, output_path).
WriterReplace ==
    /\ UNCHANGED notEnrich
    /\ wrpc = "replace"
    /\ out_file' = [exists |-> TRUE, rows |-> temp_out]
    /\ wrpc' = "end"
    /\ UNCHANGED <<mainCfg, prior_out, loadedVars, poolVars, mpc, result_queue,
                   enriched, next_row, temp_out>>
    /\ UNCHANGED fetch_calls

\* main, line 538-540: writer_thread.join().
Join ==
    /\ UNCHANGED notEnrich
    /\ mpc = "join" /\ wrpc = "end"
    /\ mpc' = "done"
    /\ UNCHANGED <<mainCfg, outVars, loadedVars, poolVars, writerVars, result_queue>>
    /\ UNCHANGED fetch_calls

\* ====================================================================
\* Enrichment: initial states and specification
\* ====================================================================

\* Input rows are taken, in this order, from a collection output: two rows
\* of one RUID (spelled differently, the subcategory padded), other RUIDs,
\* one RUID too short to be fetched.
MasterRows ==
    << <<"a", "sprite", "object", "", "", "">>,
       <<"A", "sprite", "all ", "", "", "">>,
       <<"b", "sprite", "object", "", "", "">>,
       <<"x", "sprite", "object", "", "", "">>,
       <<"c", "sprite", "object", "", "", "">> >>

\* The rows of MasterRows at the indices idx, in the order of MasterRows.
Pick(idx) ==
    [i \in 1..Cardinality(idx) |->
        MasterRows[CHOOSE k \in idx : Cardinality({j \in idx : j < k}) = i - 1]]

InputFiles ==
    {Pick(idx) : idx \in {ix \in SUBSET (1..Len(MasterRows)) : Cardinality(ix) <= MaxRows}}

\* Output files an enrichment run can start from: none, one left by an
\* earlier run with two rows enriched in full, one with a row enriched in
\* part and a row that is not in the input.
ExistingOutputs ==
    {[exists |-> FALSE, rows |-> <<>>],
     [exists |-> TRUE, rows |-> << <<"a", "sprite", "object", "d", "f", "t">>,
                                  <<"b", "sprite", "object", "d", "f", "t">> >>],
     [exists |-> TRUE, rows |-> << <<"a", "sprite", "all", "d", "", "">>,
                                  <<"z", "sprite", "object", "d", "f", "t">> >>]}

InitEnrich ==
    /\ SearchIdle /\ CollectIdle /\ DiscoverIdle /\ ThrottleIdle /\ SetupIdle
    /\ rows \in InputFiles
    /\ force \in BOOLEAN
    /\ enrich_workers \in 1..MaxFetchWorkers
    /\ out_file \in ExistingOutputs
    /\ prior_out = out_file
    /\ output_rows_dict = <<>> /\ already_enriched = {} /\ unique_needed = <<>>
    /\ mpc = "start" /\ next_index = 0
    /\ fwpc = [w \in 1..enrich_workers |-> "take"]
    /\ fwi = [w \in 1..enrich_workers |-> 0]
    /\ result_queue = <<>> /\ enriched = <<>> /\ next_row = 0
    /\ temp_out = <<>> /\ wrpc = "off" /\ fetch_calls = <<>>

NextEnrich ==
    \/ EnrichMain
    \/ Preflight
    \/ SeqFetch
    \/ SeqSentinel
    \/ \E w \in FetchWorkers : TakeNext(w)
    \/ \E w \in FetchWorkers : FetchDetail(w)
    \/ PoolSentinel
    \/ WriterGet
    \/ WriterFlush
    \/ WriterReplace
    \/ Join

SpecEnrich == InitEnrich /\ [][NextEnrich]_vars

\* Either stage that writes the output CSV.
NextOutput ==
    \/ NextCollect
    \/ NextEnrich

SpecOutput == (InitRerun \/ InitEnrich) /\ [][NextOutput]_vars

\* ---- claims on enrichment and on the output file ----

\* C2: the rows of the enrichment output are the input rows in input order
\* (row for row the same key), whatever the order in which results arrive;
\* the temp file is at any time a prefix of that.
C2_OrderPreserved ==
    /\ \A i \in 1..Len(temp_out) :
          i <= Len(rows) /\ row_key(temp_out[i]) = row_key(rows[i])
    /\ (wrpc = "end" \/ (mpc = "done" /\ ~prior_out.exists)) =>
          /\ Len(out_file.rows) = Len(rows)
          /\ \A i \in 1..Len(rows) : row_key(out_file.rows[i]) = row_key(rows[i])

\* First input row of a RUID.
RowIndex(ruid) ==
    CHOOSE k \in 1..Len(rows) :
        /\ normalize_ruid(rows[k][1]) = ruid
        /\ \A j \in 1..(k - 1) : normalize_ruid(rows[j][1]) # ruid

\* The writer has finished a run in which the result of a later row arrived
\* before the result of an earlier row.
C2_Witness ==
    /\ wrpc = "end"
    /\ \E i, j \in 1..Len(enriched) :
          i < j /\ RowIndex(enriched[i][1]) > RowIndex(enriched[j][1])

\* The writer's file and row counter agree: row i of the file was written
\* for input row i.
WriterInStep == next_row = Len(temp_out) /\ next_row <= Len(rows)

\* A step of the writer only appends, one row per input row from next_row on.
WriterAppends ==
    /\ Len(temp_out') >= Len(temp_out)
    /\ SubSeq(temp_out', 1, Len(temp_out)) = temp_out
    /\ \A i \in (Len(temp_out) + 1)..Len(temp_out') :
          i <= Len(rows) /\ row_key(temp_out'[i]) = row_key(rows[i])

\* C22: in a run that starts the writer every input row is written exactly
\* once: the writer appends one row per input row, front to back, never
\* rewrites a row it wrote, has written all of them when it publishes, and
\* publishes what it wrote; this for every arrival order of the results and
\* for rows written before and after the sentinel.
C22_EveryRowOnce ==
    /\ []WriterInStep
    /\ [][WriterAppends]_vars
    /\ [](wrpc \in {"replace", "end"} => next_row = Len(rows))
    /\ [](wrpc = "end" => out_file.rows = temp_out)

\* The writer has finished a run over a full input in which the first row
\* was written when its result arrived, a later row (its fetch returned
\* nothing) was written after the sentinel, and a result arrived for a row
\* behind that one.
C22_Witness ==
    /\ wrpc = "end" /\ Len(out_file.rows) = MaxRows
    /\ Has(enriched, normalize_ruid(rows[1][1]))
    /\ \E i, j \in 1..Len(rows) :
          /\ i < j
          /\ ~IsShort(rows[i][1]) /\ ~Has(enriched, normalize_ruid(rows[i][1]))
          /\ Has(enriched, normalize_ruid(rows[j][1]))

\* Rows of the output the run started from that are enriched and have the
\* key of input row i.
PriorEnriched(i) ==
    {k \in 1..Len(prior_out.rows) :
        /\ row_key(prior_out.rows[k]) = row_key(rows[i])
        /\ row_has_enrichment(prior_out.rows[k])}

\* Where the row written for input row i comes from.
RowSource(i) ==
    IF Has(enriched, normalize_ruid(rows[i][1])) THEN "fetched"
    ELSE IF prior_out.exists /\ PriorEnriched(i) # {} THEN "existing"
    ELSE "input"

\* The row the precedence rule asks for input row i.
PreferredRow(i) ==
    LET row == rows[i]
        info == Get(enriched, normalize_ruid(row[1]))
    IN CASE RowSource(i) = "fetched" ->
              <<row[1], row[2], row[3], info[1], info[2], info[3]>>
         [] RowSource(i) = "existing" ->
              prior_out.rows[CHOOSE k \in PriorEnriched(i) :
                                \A j \in PriorEnriched(i) : j <= k]
         [] OTHER -> row

\* C23: the row the writer emits for an input row is the input row's
\* RUID/Category/Subcategory with the freshly fetched detail if a detail for
\* the row's RUID arrived, otherwise the enriched row of the same key from
\* the existing output, otherwise the input row as it is.
C23_WritePrecedence ==
    /\ \A i \in 1..Len(temp_out) : temp_out[i] = PreferredRow(i)
    /\ wrpc = "end" =>
          \A i \in 1..Len(rows) : out_file.rows[i] = PreferredRow(i)

\* The writer has published an output with a row of each source.
C23_Witness ==
    /\ wrpc = "end"
    /\ \A src \in {"fetched", "existing", "input"} :
          \E i \in 1..Len(rows) : RowSource(i) = src
    /\ \E i \in 1..Len(rows) :
          RowSource(i) = "fetched" /\ PriorEnriched(i) # {}

\* Runs over inputs of up to MaxTermRows rows, sequential or with two fetch
\* workers, whose main thread, fetch workers and writer keep being scheduled.
InitTerm ==
    /\ InitEnrich
    /\ Len(rows) <= MaxTermRows
    /\ enrich_workers <= 2

SpecTerm == InitTerm /\ [][NextEnrich]_vars /\ WF_vars(NextEnrich)

\* The sentinel has been put on the queue.
SentinelPut == mpc \in {"join", "done"} /\ wrpc # "off"

\* Nothing follows the sentinel on the queue, no fetch is under way or still
\* to be taken once it is put, and the writer has emptied the queue when it
\* has consumed it.
SentinelLast ==
    /\ \A i \in 1..Len(result_queue) :
          result_queue[i].done => (i = Len(result_queue) /\ SentinelPut)
    /\ SentinelPut =>
          /\ next_index >= Len(unique_needed)
          /\ enrich_workers > 1 => \A w \in FetchWorkers : fwpc[w] = "returned"
    /\ wrpc \in {"flush", "replace", "end"} =>
          (SentinelPut /\ result_queue = <<>>)

\* In a run that started the writer the output changes in one step only:
\* the rename of the complete temp file.
PublishedByRename ==
    (wrpc # "off" /\ out_file' # out_file) =>
        /\ wrpc = "replace" /\ wrpc' = "end"
        /\ out_file' = [exists |-> TRUE, rows |-> temp_out]
        /\ Len(temp_out) = Len(rows)

\* C24: the sentinel is put on the result queue only after every fetch
\* worker has finished, so every fetch result is consumed before it; on
\* consuming it the writer flushes the rows that remain and publishes the
\* output by one rename; and in every run that starts the writer, the writer
\* gets there (a run with nothing to fetch starts no writer).
C24_Termination ==
    /\ []SentinelLast
    /\ [][PublishedByRename]_vars
    /\ (wrpc = "get") ~> (wrpc = "end" /\ out_file.rows = temp_out)

\* A run with two fetch workers is over: the detail a pool worker fetched
\* arrived before the sentinel, and the row of the pre-flight RUID, whose
\* fetch returned nothing, was written by the flush after it.
C24_Witness ==
    /\ wrpc = "end" /\ mpc = "done" /\ enrich_workers >= 2
    /\ Len(unique_needed) >= 2
    /\ ~Has(enriched, unique_needed[1])
    /\ Has(enriched, unique_needed[2])

\* The RUIDs to fetch, as a set.
Needed == {unique_needed[i] : i \in 1..Len(unique_needed)}

\* The pool workers that hold a taken index.
Holding == {w \in FetchWorkers : fwpc[w] = "fetch"}

\* C33: each RUID to fetch is claimed by exactly one actor, the pre-flight
\* for the first and one pool worker (or the sequential loop) for each
\* other, and fetch_one is called for it at most once in the run, exactly
\* once when main has put the sentinel; no other RUID is fetched.
C33_ClaimedOnce ==
    /\ \A i, k \in 1..Len(unique_needed) : unique_needed[i] = unique_needed[k] => i = k
    /\ \A w \in Holding : fwi[w] >= 1 /\ fwi[w] < next_index
    /\ \A w, v \in Holding : fwi[w] = fwi[v] => w = v
    /\ DOMAIN fetch_calls \subseteq Needed
    /\ \A r \in DOMAIN fetch_calls : fetch_calls[r] = 1
    /\ (mpc \in {"join", "done"} /\ unique_needed # <<>>) => DOMAIN fetch_calls = Needed

\* A run of two pool workers is over: the pre-flight and the workers have
\* fetched three RUIDs, each once.
C33_Witness ==
    /\ mpc = "done" /\ enrich_workers >= 2 /\ Len(unique_needed) >= 3
    /\ \A r \in Needed : r \in DOMAIN fetch_calls /\ fetch_calls[r] = 1

\* Input row i is not enriched in the output the run started from.
NotYetEnriched(i) == ~prior_out.exists \/ PriorEnriched(i) = {}

\* C34: without --force a RUID is fetched only if some input row that
\* carries it is not already enriched in the existing output; a RUID all of
\* whose input rows are enriched there is never fetched.
C34_FetchOnlyUnenriched ==
    ~force =>
        \A r \in DOMAIN fetch_calls :
            \E i \in 1..Len(rows) :
                normalize_ruid(rows[i][1]) = r /\ NotYetEnriched(i)

\* A run without --force is over that fetched some RUID and left alone a
\* RUID whose input rows were all enriched in the existing output.
C34_Witness ==
    /\ ~force /\ mpc = "done" /\ fetch_calls # <<>>
    /\ \E i \in 1..Len(rows) :
         /\ ~IsShort(rows[i][1])
         /\ normalize_ruid(rows[i][1]) \notin DOMAIN fetch_calls
         /\ \A k \in 1..Len(rows) :
              normalize_ruid(rows[k][1]) = normalize_ruid(rows[i][1]) => ~NotYetEnriched(k)

\* The pre-flight fetch is over and its result was not queued (no data, or
\* the join timed out), and what C35 says follows: main does not go on to
\* the sequential loop or the pool.
PreflightFailStops ==
    (mpc = "preflight" /\ mpc' # "preflight" /\ result_queue' = result_queue) =>
        mpc' \notin {"seq", "pool"}

\* C35: the pre-flight fetch completes or times out before any pool worker
\* issues a fetch, and when it fails (no result or timeout) the run stops
\* there instead of starting the pool and running the whole pipeline.
C35_PreflightFailFast ==
    /\ [](mpc = "preflight" => fetch_calls = <<>> /\ Holding = {})
    /\ [][PreflightFailStops]_vars

\* C39: when a run finds no RUID needing enrichment and the output file
\* already exists, the run leaves the output file untouched (no writer is
\* started, no temp file is created, no rename happens) and returns 0.
C39_NothingToEnrich ==
    (mpc \notin {"idle", "start"} /\ unique_needed = <<>> /\ prior_out.exists) =>
        /\ mpc = "done"
        /\ out_file = prior_out
        /\ wrpc = "off" /\ temp_out = <<>> /\ next_row = 0
        /\ result_queue = <<>> /\ fetch_calls = <<>>
        /\ \A w \in FetchWorkers : fwpc[w] = "take"

\* A run over an input with rows, all of them enriched in the existing
\* output, has returned; the output is not the input file.
C39_Witness ==
    /\ mpc = "done" /\ unique_needed = <<>> /\ prior_out.exists
    /\ rows # <<>> /\ out_file.rows # rows /\ ~force

\* The row of the existing output for input row i when that row is
\* enriched, else the input row as it is.
ExistingOrInput(i) ==
    LET key == row_key(rows[i])
        old == {j \in 1..Len(prior_out.rows) :
                  /\ row_key(prior_out.rows[j]) = key
                  /\ row_has_enrichment(prior_out.rows[j])}
    IN IF prior_out.exists /\ old # {}
       THEN prior_out.rows[CHOOSE j \in old : \A k \in old : k <= j]
       ELSE rows[i]

\* C40: the first RUID needing enrichment is fetched by the pre-flight only
\* and never by a pool worker (the cursor starts at index 1): when the
\* pre-flight gives no result or times out the RUID gets no further fetch
\* in the run, and its rows are written from the existing output or the
\* bare input.
C40_FirstOnlyByPreflight ==
    unique_needed # <<>> =>
        /\ mpc \in {"seq", "pool", "join", "done"} =>
              /\ next_index >= 1
              /\ unique_needed[1] \in DOMAIN fetch_calls
              /\ fetch_calls[unique_needed[1]] = 1
        /\ \A w \in Holding : unique_needed[fwi[w] + 1] # unique_needed[1]
        /\ (mpc = "done" /\ ~Has(enriched, unique_needed[1])) =>
              \A i \in 1..Len(rows) :
                  normalize_ruid(rows[i][1]) = unique_needed[1] =>
                      out_file.rows[i] = ExistingOrInput(i)

\* A pool run is over whose pre-flight gave nothing: a later RUID was
\* enriched, and a row of the first RUID was written from the existing
\* output.
C40_Witness ==
    /\ mpc = "done" /\ enrich_workers >= 2 /\ Len(unique_needed) >= 2
    /\ ~Has(enriched, unique_needed[1])
    /\ Has(enriched, unique_needed[2])
    /\ \E i \in 1..Len(rows) :
          /\ normalize_ruid(rows[i][1]) = unique_needed[1]
          /\ out_file.rows[i] # rows[i]

\* Number of non-empty fields among Date, Format, Tags.
FieldCount(row) == Cardinality({k \in 4..6 : row[k] # ""})

\* C3: for every input row whose key is already enriched in the existing
\* output, the row written has no fewer non-empty fields among
\* Date/Format/Tags than the existing row.  Stated for runs without --force.
C3_NeverFewerFields ==
    (wrpc = "end" /\ ~force) =>
        \A i \in 1..Len(rows) :
            row_key(rows[i]) \in already_enriched =>
                FieldCount(out_file.rows[i]) >=
                    FieldCount(output_rows_dict[row_key(rows[i])])

\* C5: in collection and in enrichment, as long as the final rename has not
\* happened, an output file that existed when the run started is what it was.
C5_PriorOutputIntact ==
    (prior_out.exists /\ cpc # "done" /\ wrpc # "end") => out_file = prior_out

\* The stage stands right before its rename, its temp file complete and
\* different from the prior output, the prior output untouched.
C5_Witness ==
    /\ prior_out.exists /\ out_file = prior_out
    /\ \/ wrpc = "replace" /\ temp_out # prior_out.rows
       \/ cpc = "replace" /\ temp_final # prior_out.rows

\* Keys of the input rows.
InputKeys == {row_key(rows[i]) : i \in 1..Len(rows)}

\* C11: every row that is enriched in the output file before an enrichment
\* run is still in the output file, with its enrichment, after the run.
\* Stated for the case the claim singles out: rows whose key does not occur
\* in the input.
C11_PriorWorkKept ==
    (wrpc = "end" /\ prior_out.exists) =>
        \A i \in 1..Len(prior_out.rows) :
            (/\ row_has_enrichment(prior_out.rows[i])
             /\ row_key(prior_out.rows[i]) \notin InputKeys)
            => \E j \in 1..Len(out_file.rows) : out_file.rows[j] = prior_out.rows[i]

\* ====================================================================
\* Discovery run: main of 0-find_last_pages.py and last_pages.csv
\* ====================================================================

\* TEST_SEGMENTS (line 238), without the names.
TEST_SEGMENTS == << <<0, 5>>, <<1, -1>>, <<3, -1>>, <<25, -1>> >>

\* iter_all_segments: the partitions of category_subcategories.json, per
\* category the specific subcategories in ascending order, then -1.
iter_all_segments == iter_segments(<<0>>, FALSE)

\* load_existing_last_pages: (cid, sid) -> last_page; a later row of a key
\* replaces an earlier one.
RECURSIVE LoadLastPages(_, _)
LoadLastPages(todo, acc) ==
    IF todo = <<>> THEN acc
    ELSE LET row == Head(todo)
             key == <<row[1], row[2]>>
         IN LoadLastPages(Tail(todo),
               [k \in DOMAIN acc \cup {key} |-> IF k = key THEN row[3] ELSE acc[k]])

load_existing_last_pages(file) ==
    IF ~file.exists THEN <<>> ELSE LoadLastPages(file.rows, <<>>)

\* main, line 249-257: the partitions the arguments select.
SelectedSegments(a) ==
    LET IsAll(sg) == sg[2] = -1
        InCat(sg) == sg[1] \in a.category
        InSub(sg) == sg[2] \in a.subcategory
        by_cat == SelectSeq(iter_all_segments, InCat)
    IN IF a.test THEN TEST_SEGMENTS
       ELSE IF a.all_only THEN SelectSeq(iter_all_segments, IsAll)
       ELSE IF a.category # {}
       THEN (IF a.subcategory # {} THEN SelectSeq(by_cat, InSub) ELSE by_cat)
       ELSE iter_all_segments

\* main, line 324-326: existing[(cid, sid)] = ... for every result, in order.
RECURSIVE merge_results_only(_, _)
merge_results_only(ex, res) ==
    IF res = <<>> THEN <<>>
    ELSE LET r == Head(res)
             rest == merge_results_only(ex, Tail(res))
         IN [k \in DOMAIN rest \cup {<<r[1], r[2]>>} |->
                IF k \in DOMAIN rest THEN rest[k] ELSE r[3]]

RECURSIVE merge_results(_, _)
merge_results(ex, res) ==
    IF res = <<>> THEN ex
    ELSE LET r == Head(res)
             key == <<r[1], r[2]>>
         IN merge_results([k \in DOMAIN ex \cup {key} |->
                              IF k = key THEN r[3] ELSE ex[k]], Tail(res))

\* main, line 309-310: max_page is ceil(total / 150) when the API total is
\* known and not 0, else 8750.
MaxPageFor(count) ==
    {DEFAULT_MAX_PAGE} \cup (IF count > 0 THEN {count} ELSE {})

discoverCfg == <<prior_table, args, page_counts>>

\* main, line 236-266: the partitions to process and the existing table.
DiscoverMain ==
    /\ dpc = "start"
    /\ segments' = SelectedSegments(args)
    /\ IF SelectedSegments(args) = <<>>
       THEN /\ dpc' = "exit"
            /\ UNCHANGED <<existing, dseg_idx>>
       ELSE /\ existing' = load_existing_last_pages(table)
            /\ dseg_idx' = 1
            /\ dpc' = "segment"
    /\ UNCHANGED <<discoverCfg, table, results>>
    /\ UNCHANGED searchVars /\ UNCHANGED notDiscover

\* main, line 272-308: --test, page 1 only; last = 1 whatever page 1 holds.
TestSegment ==
    /\ dpc = "segment" /\ args.test /\ dseg_idx <= Len(segments)
    /\ results' = Append(results, <<segments[dseg_idx][1], segments[dseg_idx][2], 1>>)
    /\ dseg_idx' = dseg_idx + 1
    /\ UNCHANGED <<discoverCfg, table, segments, existing, dpc>>
    /\ UNCHANGED searchVars /\ UNCHANGED notDiscover

\* main, line 309-313: the max_page estimate; the search of the partition
\* starts (phase1_first_empty, then phase2_binary_search_to_last).
SegmentSearch ==
    /\ dpc = "segment" /\ ~args.test /\ dseg_idx <= Len(segments)
    /\ dpc' = "searching"
    /\ truth' = page_counts[segments[dseg_idx]]
    /\ flaky' \in BOOLEAN
    /\ max_page' \in MaxPageFor(page_counts[segments[dseg_idx]])
    /\ spc' = "phase1" /\ probe' = PROBE_STEP /\ first_empty' = 0
    /\ low' = 0 /\ high' = 0 /\ candidate' = 0 /\ outer_iters' = 0 /\ attempt' = 0
    /\ returned' = "running" /\ last' = 0 /\ confNonEmpty' = {} /\ confEmpty' = {}
    /\ c_prev' = 0 /\ c_next' = 0
    /\ UNCHANGED <<discoverCfg, table, segments, dseg_idx, existing, results>>
    /\ UNCHANGED notDiscover

\* A main that opens the table for writing before it exits on None.
SegmentResultTruncates ==
    /\ dpc = "searching" /\ spc = "done"
    /\ spc' = "idle"
    /\ IF returned = "None"
       THEN /\ dpc' = "exit"
            /\ table' = [exists |-> TRUE, rows |-> <<>>]
            /\ UNCHANGED <<results, dseg_idx>>
       ELSE /\ results' = Append(results,
                   <<segments[dseg_idx][1], segments[dseg_idx][2], last>>)
            /\ UNCHANGED table
            /\ dseg_idx' = dseg_idx + 1
            /\ dpc' = "segment"
    /\ UNCHANGED <<discoverCfg, segments, existing>>
    /\ UNCHANGED <<truth, flaky, max_page, probe, first_empty, low, high, candidate,
                   outer_iters, attempt, returned, last, confNonEmpty, confEmpty,
                   c_prev, c_next>>
    /\ UNCHANGED notDiscover

\* main, line 316-322: sys.exit(1) when the search returned None, else the
\* result is appended.
SegmentResult ==
    /\ dpc = "searching" /\ spc = "done"
    /\ spc' = "idle"
    /\ IF returned = "None"
       THEN /\ dpc' = "exit"
            /\ UNCHANGED <<results, dseg_idx>>
       ELSE /\ results' = Append(results,
                   <<segments[dseg_idx][1], segments[dseg_idx][2], last>>)
            /\ dseg_idx' = dseg_idx + 1
            /\ dpc' = "segment"
    /\ UNCHANGED <<discoverCfg, table, segments, existing>>
    /\ UNCHANGED <<truth, flaky, max_page, probe, first_empty, low, high, candidate,
                   outer_iters, attempt, returned, last, confNonEmpty, confEmpty,
                   c_prev, c_next>>
    /\ UNCHANGED notDiscover

\* main, line 324-331: the results go into existing; open(out_path, "w")
\* truncates last_pages.csv and the header is written.
TableOpen ==
    /\ dpc = "segment" /\ dseg_idx > Len(segments)
    /\ existing' = merge_results(existing, results)
    /\ table' = [exists |-> TRUE, rows |-> <<>>]
    /\ dpc' = "write"
    /\ UNCHANGED <<discoverCfg, segments, dseg_idx, results>>
    /\ UNCHANGED searchVars /\ UNCHANGED notDiscover

\* main, line 332-334: one row of the table, in sorted key order.
TableWriteRow ==
    /\ dpc = "write" /\ Len(table.rows) < Cardinality(DOMAIN existing)
    /\ LET key == SortedKeys(DOMAIN existing)[Len(table.rows) + 1]
       IN table' = [table EXCEPT !.rows = Append(@, <<key[1], key[2], existing[key]>>)]
    /\ UNCHANGED <<discoverCfg, segments, dseg_idx, existing, results, dpc>>
    /\ UNCHANGED searchVars /\ UNCHANGED notDiscover

\* main, line 327-335: the file is closed.
TableClose ==
    /\ dpc = "write" /\ Len(table.rows) >= Cardinality(DOMAIN existing)
    /\ dpc' = "done"
    /\ UNCHANGED <<discoverCfg, table, segments, dseg_idx, existing, results>>
    /\ UNCHANGED searchVars /\ UNCHANGED notDiscover

\* Command lines: the full run, --all-only, --category 0 with and without
\* --subcategory, a category that is not in the taxonomy, --test.
DiscoverArgs ==
    {[test |-> FALSE, all_only |-> FALSE, category |-> {}, subcategory |-> {}],
     [test |-> FALSE, all_only |-> TRUE, category |-> {}, subcategory |-> {}],
     [test |-> FALSE, all_only |-> FALSE, category |-> {0}, subcategory |-> {}],
     [test |-> FALSE, all_only |-> FALSE, category |-> {0}, subcategory |-> {5}],
     [test |-> FALSE, all_only |-> FALSE, category |-> {1}, subcategory |-> {}],
     [test |-> TRUE, all_only |-> TRUE, category |-> {}, subcategory |-> {}]}

\* Tables an earlier run of main wrote: none, or rows in sorted key order
\* for some partitions, each with a last_page that is stale by now.
TableKeys == {<<0, -1>>, <<0, 5>>, <<1, -1>>}
StaleLastPage == MaxPagesWithData + 1
PriorTables ==
    {[exists |-> FALSE, rows |-> <<>>]} \cup
    {[exists |-> TRUE,
      rows |-> [i \in 1..Cardinality(S) |->
                  <<SortedKeys(S)[i][1], SortedKeys(S)[i][2], StaleLastPage>>]] :
        S \in SUBSET TableKeys}

InitDiscover ==
    /\ CollectIdle /\ EnrichIdle /\ NoOutput /\ SearchIdle /\ ThrottleIdle /\ SetupIdle
    /\ table \in PriorTables
    /\ prior_table = table
    /\ args \in DiscoverArgs
    /\ page_counts \in [Segments -> 0..MaxPagesWithData]
    /\ segments = <<>> /\ dseg_idx = 0 /\ existing = <<>> /\ results = <<>>
    /\ dpc = "start"

NextDiscover ==
    \/ DiscoverMain
    \/ TestSegment
    \/ SegmentSearch
    \/ NextSearch
    \/ SegmentResult
    \/ TableOpen
    \/ TableWriteRow
    \/ TableClose

SpecDiscover == InitDiscover /\ [][NextDiscover]_vars

\* ---- claims on the boundary table ----

\* Partitions with a result in this run.
Processed == {<<results[i][1], results[i][2]>> : i \in 1..Len(results)}

\* Rows of a table for a partition.
TableRows(file, key) == {i \in 1..Len(file.rows) : <<file.rows[i][1], file.rows[i][2]>> = key}

\* C12: after a discovery run, every entry of the table for a partition not
\* processed in the run is present with its last_page unchanged, and each
\* processed partition has exactly one row, holding the last_page found.
C12_MergeOnWrite ==
    dpc = "done" =>
        /\ \A i \in 1..Len(prior_table.rows) :
              <<prior_table.rows[i][1], prior_table.rows[i][2]>> \notin Processed
              => \E j \in 1..Len(table.rows) : table.rows[j] = prior_table.rows[i]
        /\ \A i \in 1..Len(results) :
              /\ Cardinality(TableRows(table, <<results[i][1], results[i][2]>>)) = 1
              /\ \E j \in 1..Len(table.rows) : table.rows[j] = results[i]

\* A run has ended that found a new last_page for a partition of the table
\* and left a row of another partition alone.
C12_Witness ==
    /\ dpc = "done"
    /\ \E i, k \in 1..Len(prior_table.rows) :
          /\ <<prior_table.rows[i][1], prior_table.rows[i][2]>> \notin Processed
          /\ <<prior_table.rows[k][1], prior_table.rows[k][2]>> \in Processed
          /\ \E j \in 1..Len(table.rows) : table.rows[j] = prior_table.rows[i]
          /\ \A j \in 1..Len(table.rows) : table.rows[j] # prior_table.rows[k]

\* C13: as long as the rewrite of last_pages.csv has not ended, the table
\* that was persisted before the run is intact and complete.
C13_PriorTableIntact ==
    (prior_table.exists /\ dpc # "done") => table = prior_table

\* ====================================================================
\* Collection: the request throttle (_throttle_request)
\* ====================================================================

\* _throttle_request, line 320-322, under throttle_lock: the wait and the
\* new last_request_time for a call at time t.
throttle_forgets_wait(t, last_time, interval) ==
    LET w == IF interval - (t - last_time) > 0 THEN interval - (t - last_time) ELSE 0
    IN [wait |-> w, last |-> t]

throttle(t, last_time, interval) ==
    LET w == IF interval - (t - last_time) > 0 THEN interval - (t - last_time) ELSE 0
    IN [wait |-> w, last |-> t + w]

Threads == 1..MaxThreads

\* time.monotonic() moves on.
Tick ==
    /\ UNCHANGED notThrottle
    /\ clock < MaxClock
    /\ clock' = clock + 1
    /\ UNCHANGED <<delay, last_request_time, tpc, wake, grants>>

\* _throttle_request, line 319-322: a thread about to send a page request
\* (line 483, 596, 1015) takes the lock and is granted its send time.
ThrottleRequest(th) ==
    /\ UNCHANGED notThrottle
    /\ tpc[th] = "call" /\ Len(grants) < MaxGrants
    /\ LET g == throttle(clock, last_request_time, delay)
       IN /\ last_request_time' = g.last
          /\ grants' = Append(grants, g.last)
          /\ wake' = [wake EXCEPT ![th] = clock + g.wait]
          /\ tpc' = [tpc EXCEPT ![th] = IF g.wait > 0 THEN "sleep" ELSE "fetch"]
    /\ UNCHANGED <<clock, delay>>

\* _throttle_request, line 323-324: time.sleep(wait) returns, not early.
Wake(th) ==
    /\ UNCHANGED notThrottle
    /\ tpc[th] = "sleep" /\ clock >= wake[th]
    /\ tpc' = [tpc EXCEPT ![th] = "fetch"]
    /\ UNCHANGED <<clock, delay, last_request_time, wake, grants>>

\* fetch_page returns and the thread comes to its next request.
FetchDone(th) ==
    /\ UNCHANGED notThrottle
    /\ tpc[th] = "fetch"
    /\ tpc' = [tpc EXCEPT ![th] = "call"]
    /\ wake' = [wake EXCEPT ![th] = 0]
    /\ UNCHANGED <<clock, delay, last_request_time, grants>>

\* main, line 907-909: last_request_time = [0.0]; the monotonic clock reads
\* anything at the start.
InitThrottle ==
    /\ SearchIdle /\ CollectIdle /\ EnrichIdle /\ DiscoverIdle /\ NoOutput /\ SetupIdle
    /\ clock \in 0..1
    /\ delay \in 0..MaxDelay
    /\ last_request_time = 0
    /\ tpc = [th \in Threads |-> "call"]
    /\ wake = [th \in Threads |-> 0]
    /\ grants = <<>>

NextThrottle ==
    \/ Tick
    \/ \E th \in Threads : ThrottleRequest(th)
    \/ \E th \in Threads : Wake(th)
    \/ \E th \in Threads : FetchDone(th)

SpecThrottle == InitThrottle /\ [][NextThrottle]_vars

\* C16: the send times the throttle grants to any two page requests of a
\* run differ by at least the configured interval.
C16_GrantsSpaced ==
    \A i, j \in 1..Len(grants) : i < j => grants[j] - grants[i] >= delay

\* Three requests were granted send times while the clock stood still, with
\* an interval that is not zero.
C16_Witness ==
    /\ delay > 0 /\ Len(grants) >= 3
    /\ grants[3] >= clock + 2 * delay


\* ====================================================================
\* Collection: the list of partitions to walk
\* ====================================================================

\* main, line 853-857: segments_list for a command line a and the boundary
\* table lp that load_last_pages returned.  a.last_pages says whether
\* --last-pages names a table.
segments_list_of(a, lp) ==
    IF a.test /\ a.last_pages
    THEN SortedKeys({s \in DOMAIN lp :
                       \E i \in 1..Len(a.categories) : a.categories[i] = s[1]})
    ELSE iter_segments(a.categories, a.all_only)

\* main, line 858-864: every partition of the list has a last_page >= 1 in
\* the table (otherwise the run exits before any fetch).
last_pages_ok(segs, lp) ==
    \A i \in 1..Len(segs) : segs[i] \in DOMAIN lp /\ lp[segs[i]] >= 1

\* Command lines of a CSV run over category 0.
CollectArgs ==
    [test : BOOLEAN, last_pages : BOOLEAN, all_only : BOOLEAN,
     categories : {<<0>>}]

\* Boundary tables: a last_page for some or all of the partitions.
LastPagesTables ==
    UNION {[K -> 1..MaxTruePages] : K \in (SUBSET Segments) \ {{}}}

\* Runs with --workers 1 that pass the validation of the table and have a
\* partition to walk.
InitSelect ==
    /\ SearchIdle /\ EnrichIdle /\ DiscoverIdle /\ ThrottleIdle /\ SetupIdle
    /\ svc = [sg \in Segments |-> Listing(1)]
    /\ out_file \in ExistingFiles
    /\ last_pages \in LastPagesTables
    /\ \E a \in CollectArgs :
         /\ segments_list_of(a, last_pages) # <<>>
         /\ last_pages_ok(segments_list_of(a, last_pages), last_pages)
         /\ CollectStart(segments_list_of(a, last_pages), {1}, a.test)
    /\ fetch_fails = AnyRequest

SpecSelect == InitSelect /\ [][NextSequential]_vars

\* C18: whichever way the list of partitions was built (the taxonomy walk,
\* --all-only, or the test mode that takes the partitions from a supplied
\* boundary table), the catch-all partition of a category is walked only
\* after every specific subcategory of that category in the list: while a
\* page of the catch-all has been fetched, no specific subcategory of the
\* category is still to be walked.
C18_SpecificBeforeCatchAll ==
    (cpc = "walk" /\ Seg[2] = -1 /\ settled # {}) =>
        \A i \in 1..Len(segments_list) :
            (segments_list[i][1] = Seg[1] /\ segments_list[i][2] # -1)
                => i < seg_idx


\* ====================================================================
\* Collection: a run on a stale boundary table
\* ====================================================================

\* A run with --all-only and --workers 1 whose boundary table says more pages than the
\* listing has (records were removed since the table was written, or the
\* service answers nothing): the walk goes on to last_page + 10 and leaves a
\* ticket for every page without records.
InitStale ==
    /\ SearchIdle /\ EnrichIdle /\ DiscoverIdle /\ ThrottleIdle /\ SetupIdle
    /\ \E len \in 0..1 :
         svc = [sg \in Segments |-> IF sg = <<0, -1>> THEN Listing(len) ELSE <<>>]
    /\ \E hint \in {1, MaxStaleHint - 1, MaxStaleHint} :
         last_pages = [sg \in Segments |-> hint]
    /\ out_file \in ExistingFiles
    /\ CollectStart(iter_segments(<<0>>, TRUE), {1}, FALSE)
    /\ fetch_fails = AnyRequest

SpecStale == InitStale /\ [][NextSequential]_vars

\* Tickets whose page was fetched again by the retry pass.
Retried == {key \in DOMAIN attempts_made : attempts_made[key] > 1}

\* C20 as stated: a ticket whose page index exceeds max_page_with_content of
\* its partition + 10 (the skeptical buffer) when it is dequeued is
\* discarded without being fetched.
C20_DiscardPastSkepticalBuffer ==
    cpc # "walk" =>
        \A key \in Retried :
            key[3] <= max_page_with_content[<<key[1], key[2]>>]
                        + SKEPTICAL_PAGE_BUFFER

\* C20, amended: a ticket whose page index exceeds max_page_with_content of
\* its partition + 20 (the retry page buffer) when it is dequeued is
\* discarded without being fetched.
C20_DiscardPastRetryBuffer ==
    cpc # "walk" =>
        \A key \in Retried :
            key[3] <= max_page_with_content[<<key[1], key[2]>>]
                        + RETRY_PAGE_BUFFER

\* The retry pass is over: the ticket of the page just past the retry
\* buffer was discarded unfetched, the ticket of the page at the buffer was
\* fetched again.
C20_Witness ==
    /\ cpc = "merge"
    /\ \E key \in DOMAIN attempts_made \ Retried :
         key[3] = max_page_with_content[<<key[1], key[2]>>] + RETRY_PAGE_BUFFER + 1
    /\ \E key \in Retried :
         key[3] = max_page_with_content[<<key[1], key[2]>>] + RETRY_PAGE_BUFFER

\* ---------------------------------------------------------------------
\* The start of a stage: what main checks before its first request
\* ---------------------------------------------------------------------

\* 0-find_last_pages.py: MSW_IFWT must be set.
FindLastPagesAuth ==
    /\ stage = 0 /\ supc = "credential"
    /\ IF ~ifwt
       THEN supc' = "exit" /\ exit_code' = 1
       ELSE supc' = "segments" /\ UNCHANGED exit_code
    /\ UNCHANGED <<stage, ifwt, table_state, input_state, no_segments, csv_mode,
                   cookies, requests>>
    /\ UNCHANGED notSetup

\* 0-find_last_pages.py: the partition filters must select something.
FindLastPagesSegments ==
    /\ stage = 0 /\ supc = "segments"
    /\ IF no_segments
       THEN supc' = "exit" /\ exit_code' = 1
       ELSE supc' = "work" /\ UNCHANGED exit_code
    /\ UNCHANGED <<stage, ifwt, table_state, input_state, no_segments, csv_mode,
                   cookies, requests>>
    /\ UNCHANGED notSetup

\* 1-collect.py, line 842-866: with --out (csv_mode) last_pages.csv must
\* load and hold a last_page of at least 1 for every partition of the run;
\* without --out the table is not read.
CollectLastPages ==
    /\ stage = 1 /\ supc = "table"
    /\ IF csv_mode /\ table_state # "ok"
       THEN supc' = "exit" /\ exit_code' = 1
       ELSE supc' = "credential" /\ UNCHANGED exit_code
    /\ UNCHANGED <<stage, ifwt, table_state, input_state, no_segments, csv_mode,
                   cookies, requests>>
    /\ UNCHANGED notSetup

\* 1-collect.py, line 869-870: get_auth opens the --cookies file whenever
\* one is given (line 739-746), and a file that is not there ends the run
\* with the exception; otherwise it returns the headers and the token, set
\* or not, and main does not look at the token and goes on.
CollectGetAuth ==
    /\ stage = 1 /\ supc = "credential"
    /\ IF cookies = "missing"
       THEN supc' = "exit" /\ exit_code' = 1
       ELSE /\ supc' = (IF csv_mode THEN "work" ELSE "stdout")
            /\ UNCHANGED exit_code
    /\ UNCHANGED <<stage, ifwt, table_state, input_state, no_segments, csv_mode,
                   cookies, requests>>
    /\ UNCHANGED notSetup

\* 1-collect.py without --out, line 1138-1142: the loop reads segments_list,
\* which is bound only under csv_mode (line 855-857); the run ends with the
\* exception before its first request.
CollectStdout ==
    /\ stage = 1 /\ supc = "stdout"
    /\ supc' = "exit" /\ exit_code' = 1
    /\ UNCHANGED <<stage, ifwt, table_state, input_state, no_segments, csv_mode,
                   cookies, requests>>
    /\ UNCHANGED notSetup

\* 2-enrich.py: a token from --ifwt, MSW_IFWT, the browser or the default.
EnrichAuth ==
    /\ stage = 2 /\ supc = "credential"
    /\ IF ~ifwt
       THEN supc' = "exit" /\ exit_code' = 1
       ELSE supc' = "input" /\ UNCHANGED exit_code
    /\ UNCHANGED <<stage, ifwt, table_state, input_state, no_segments, csv_mode,
                   cookies, requests>>
    /\ UNCHANGED notSetup

\* 2-enrich.py: the input file must exist.
EnrichInput ==
    /\ stage = 2 /\ supc = "input"
    /\ IF input_state = "missing"
       THEN supc' = "exit" /\ exit_code' = 1
       ELSE supc' = "schema" /\ UNCHANGED exit_code
    /\ UNCHANGED <<stage, ifwt, table_state, input_state, no_segments, csv_mode,
                   cookies, requests>>
    /\ UNCHANGED notSetup

\* 2-enrich.py: the header of the input must be CSV_COLUMNS.
EnrichSchema ==
    /\ stage = 2 /\ supc = "schema"
    /\ IF input_state = "bad_schema"
       THEN supc' = "exit" /\ exit_code' = 1
       ELSE supc' = "work" /\ UNCHANGED exit_code
    /\ UNCHANGED <<stage, ifwt, table_state, input_state, no_segments, csv_mode,
                   cookies, requests>>
    /\ UNCHANGED notSetup

\* Past the checks, the stage fetches a listing page (stages 0 and 1) or a
\* record's detail (stage 2).
SetupFetch ==
    /\ supc = "work" /\ requests < MaxRequests
    /\ requests' = requests + 1
    /\ UNCHANGED <<stage, ifwt, table_state, input_state, no_segments, csv_mode,
                   cookies, supc, exit_code>>
    /\ UNCHANGED notSetup

\* 0-find_last_pages.py past its checks: the run ends with status 1 when
\* the search of a partition returns None (line 316-319), which it does only
\* after fetches, and with status 0 when the table is written (line 324-335).
FindLastPagesFinish ==
    /\ stage = 0 /\ supc = "work"
    /\ supc' = "exit"
    /\ exit_code' \in (IF requests > 0 THEN {0, 1} ELSE {0})
    /\ UNCHANGED <<stage, ifwt, table_state, input_state, no_segments, csv_mode,
                   cookies, requests>>
    /\ UNCHANGED notSetup

\* 1-collect.py with --out past its checks: main returns 0 (line 1137, 1174).
CollectFinish ==
    /\ stage = 1 /\ supc = "work"
    /\ supc' = "exit" /\ exit_code' = 0
    /\ UNCHANGED <<stage, ifwt, table_state, input_state, no_segments, csv_mode,
                   cookies, requests>>
    /\ UNCHANGED notSetup

\* 2-enrich.py past its checks: main returns 0 (line 384, 389, 540).
EnrichFinish ==
    /\ stage = 2 /\ supc = "work"
    /\ supc' = "exit" /\ exit_code' = 0
    /\ UNCHANGED <<stage, ifwt, table_state, input_state, no_segments, csv_mode,
                   cookies, requests>>
    /\ UNCHANGED notSetup

\* A stage is started in some environment.
InitSetup ==
    /\ SearchIdle /\ CollectIdle /\ EnrichIdle /\ DiscoverIdle /\ ThrottleIdle /\ NoOutput
    /\ stage \in {0, 1, 2}
    /\ ifwt \in BOOLEAN
    /\ table_state \in {"ok", "missing", "invalid", "entry_missing"}
    /\ input_state \in {"ok", "missing", "bad_schema"}
    /\ no_segments \in BOOLEAN
    /\ csv_mode \in (IF stage = 1 THEN BOOLEAN ELSE {FALSE})
    /\ cookies \in (IF stage = 1 THEN {"none", "missing", "ok"} ELSE {"none"})
    /\ supc = (IF stage = 1 THEN "table" ELSE "credential")
    /\ exit_code = -1 /\ requests = 0

NextSetup ==
    \/ FindLastPagesAuth
    \/ FindLastPagesSegments
    \/ CollectLastPages
    \/ CollectGetAuth
    \/ CollectStdout
    \/ EnrichAuth
    \/ EnrichInput
    \/ EnrichSchema
    \/ SetupFetch
    \/ FindLastPagesFinish
    \/ CollectFinish
    \/ EnrichFinish

SpecSetup == InitSetup /\ [][NextSetup]_vars

\* The run has a setup error: no credential, or, for the stage that reads
\* it, a boundary table that is missing, invalid or lacks an entry, or an
\* input that is missing or has the wrong columns.
SetupError ==
    \/ ~ifwt
    \/ stage = 1 /\ table_state # "ok"
    \/ stage = 2 /\ input_state # "ok"

\* C25: when the credential is missing, the boundary table or a needed
\* entry of it is missing or invalid, or the input schema is malformed, the
\* stage issues no page or detail fetch and exits with a non-zero code.
C25_SetupErrorsFatal ==
    SetupError =>
        /\ requests = 0
        /\ supc # "work"
        /\ supc = "exit" => exit_code # 0

\* ---------------------------------------------------------------------
\* Discovery: a partition without a boundary
\* ---------------------------------------------------------------------

\* The search of the partition has returned None and main has not yet
\* looked at the result.
NoneReturned == dpc = "searching" /\ spc = "done" /\ returned = "None"

\* C27: when the search returns None for a partition the discovery run
\* exits with a non-zero code (its next step is the exit, after which it
\* takes no step) and the boundary table is as it was before the run: no
\* row of any partition is altered or dropped.
C27_NoneLeavesTable ==
    /\ [][NoneReturned => dpc' = "exit"]_vars
    /\ [][dpc # "exit"]_vars
    /\ [](dpc = "exit" => table = prior_table)

\* The run has exited on a partition without a boundary, after it had found
\* the boundary of an earlier partition, with a table of an earlier run on
\* disk.
C27_Witness ==
    /\ dpc = "exit" /\ returned = "None"
    /\ results # <<>>
    /\ prior_table.exists /\ prior_table.rows # <<>>

\* ---------------------------------------------------------------------
\* Discovery: the values returned and persisted
\* ---------------------------------------------------------------------

\* Phase 2 called on its own, and whole discovery runs.
InitBoundary == InitPhase2 \/ InitDiscover

SpecBoundary == InitBoundary /\ [][NextDiscover]_vars

\* C32: every last_page the boundary search returns is an integer >= 1 and
\* <= first_empty - 1, and every last_page of the results and of the
\* persisted table is >= 1.
C32_LastPageInRange ==
    /\ returned = "page" => (last >= 1 /\ last <= first_empty - 1)
    /\ \A i \in 1..Len(results) : results[i][3] >= 1
    /\ \A i \in 1..Len(table.rows) : table.rows[i][3] >= 1

\* A discovery run has persisted a boundary that the search returned, one
\* below the true last page of its partition.
C32_Witness ==
    /\ dpc = "done" /\ ~args.test
    /\ \E i \in 1..Len(table.rows), j \in 1..Len(results) :
         /\ table.rows[i] = results[j]
         /\ results[j][3] < page_counts[<<results[j][1], results[j][2]>>]

\* ---------------------------------------------------------------------
\* Failures of one partition or record and its siblings
\* ---------------------------------------------------------------------

\* A collection run over both partitions of the category by the pool of
\* page workers (line 949-977) or, with --workers 1, by the sequential walk,
\* against a service that may drop any request of the partition walked first
\* and answers every request of the partition after it. (When the requests
\* of both partitions may fail, both walks run a tail of ten pages, and the
\* tickets of the two tails stand in the list in any of 2^20 orders.)
InitSiblings ==
    /\ SearchIdle /\ EnrichIdle /\ DiscoverIdle /\ ThrottleIdle /\ SetupIdle
    /\ svc = [sg \in Segments |-> Listing(1)]
    /\ last_pages = [sg \in Segments |-> Len(svc[sg])]
    /\ out_file \in {f \in ExistingFiles : f.rows # <<>> /\ f.rows[1][1] = "R"}
    /\ CollectStart(iter_segments(<<0>>, FALSE), CollectWorkers, FALSE)
    /\ fetch_fails = {rq \in AnyRequest : rq[1] = segments_list[1]}

\* Runs of the three stages in which fetches fail: the walk of a collection
\* run over its partitions, an enrichment run, a discovery run.
InitIsolation == InitSiblings \/ InitSoft \/ InitTerm \/ InitDiscover

NextIsolation == NextWalk \/ NextEnrich \/ NextDiscover

SpecIsolation == InitIsolation /\ [][NextIsolation]_vars

\* The collection run has fetched a page of partition sg: the page got a
\* ticket, was taken for the final page, or yielded a record.
Walked(sg) ==
    \/ \E key \in DOMAIN attempts_made : <<key[1], key[2]>> = sg
    \/ \E e \in ended : e.seg = sg
    \/ \E y \in yielded : y[2] = sg

\* Collection: every partition before the one being walked, and every
\* partition once the walk is over, has been walked, whatever failed.
CollectIsolated ==
    \A i \in 1..Len(segments_list) :
        (i < seg_idx \/ cpc # "walk") => Walked(segments_list[i])

\* Enrichment: when main has put the sentinel every RUID to fetch has been
\* taken and its fetch has returned, whatever failed.
EnrichIsolated ==
    mpc \in {"join", "done"} =>
        /\ next_index >= Len(unique_needed)
        /\ \A w \in FetchWorkers : fwpc[w] # "fetch"

\* Discovery: when the loop over the partitions is left, every partition
\* has been searched.
DiscoverIsolated ==
    dpc \in {"exit", "write", "done"} => dseg_idx >= Len(segments)

\* C26 as stated: a failure in one partition or record never aborts the
\* processing of its siblings: after a partition whose pages all fail, or
\* for which no boundary can be found, every later partition of the run is
\* still processed, and after a record whose detail fetch fails every later
\* record is still fetched.
C26_FailureIsolation ==
    CollectIsolated /\ EnrichIsolated /\ DiscoverIsolated

\* C26, amended: after a partition whose pages all fail every later
\* partition of the collection run is still processed, and after a record
\* whose detail fetch fails every later record is still fetched.
C26_IsolationOfWalkAndFetch ==
    CollectIsolated /\ EnrichIsolated

\* The walk of a collection run by a pool of page workers is over, and no
\* page of the first partition yielded a record while the partition after
\* it did.
C26_Witness ==
    /\ cpc = "retry" /\ workers > 1 /\ Len(segments_list) >= 2
    /\ ~ \E y \in yielded : y[2] = segments_list[1]
    /\ \E y \in yielded : y[2] = segments_list[2]


\* ====================================================================
\* Collection: the merge with an output file that already exists
\* ====================================================================

\* A row as NewRow writes it for a partition of the last-pages table whose
\* subcategory the taxonomy does not name: get_category_and_subcategory_names
\* falls back to str(subcategory), and _name_to_segment has no entry for it.
UnnamedRow == NewRow("q", <<0, 6>>)

\* The output files of ExistingFiles, and files that also hold the row of an
\* unnamed subcategory before or after a row of a named one.
MergeFiles ==
    ExistingFiles \cup
    {[exists |-> TRUE, rows |-> <<UnnamedRow>>],
     [exists |-> TRUE, rows |-> <<UnnamedRow, <<"r", "sprite", "object", "d", "f", "t">> >>],
     [exists |-> TRUE, rows |-> << <<"R", "sprite", "all", "", "", "">>, UnnamedRow>>]}

InitMerge ==
    /\ SearchIdle /\ EnrichIdle /\ DiscoverIdle /\ ThrottleIdle /\ SetupIdle
    /\ fetch_fails = {}
    /\ \E len \in 1..MaxTruePages :
         svc = [sg \in Segments |-> IF sg = <<0, -1>> THEN Listing(len)
                                    ELSE Listing(1)]
    /\ last_pages = [sg \in Segments |-> Len(svc[sg])]
    /\ out_file \in MergeFiles
    /\ CollectStart(iter_segments(<<0>>, FALSE), CollectWorkers, FALSE)

SpecMerge == InitMerge /\ [][NextCollect]_vars

\* The key of a row as the file spells it.
KeyAsWritten(row) == <<Lower(row[1]), row[2], row[3]>>

\* C36: after a collection run over an existing output file every row of
\* that file is still in the final output, unchanged and in its place, the
\* rows the run found come after them, and no key (record id, category,
\* subcategory) occurs twice.
C36_MergeKeepsExisting ==
    (cpc = "done" /\ prior_out.exists) =>
        /\ Len(out_file.rows) = Len(prior_out.rows) + Len(temp_rows)
        /\ \A i \in 1..Len(prior_out.rows) : out_file.rows[i] = prior_out.rows[i]
        /\ \A i \in 1..Len(temp_rows) :
              out_file.rows[Len(prior_out.rows) + i] = temp_rows[i]
        /\ \A i, j \in 1..Len(out_file.rows) :
              KeyAsWritten(out_file.rows[i]) = KeyAsWritten(out_file.rows[j]) => i = j

\* The same for output files all of whose rows carry names of the taxonomy.
C36_NamedRowsKept ==
    (cpc = "done" /\ prior_out.exists
        /\ \A i \in 1..Len(prior_out.rows) :
              NameKnown(<<prior_out.rows[i][2], prior_out.rows[i][3]>>)) =>
        /\ Len(out_file.rows) = Len(prior_out.rows) + Len(temp_rows)
        /\ \A i \in 1..Len(prior_out.rows) : out_file.rows[i] = prior_out.rows[i]
        /\ \A i, j \in 1..Len(out_file.rows) :
              KeyAsWritten(out_file.rows[i]) = KeyAsWritten(out_file.rows[j]) => i = j

\* A run over an existing file has merged new rows behind the old ones.
C36_Witness ==
    cpc = "done" /\ prior_out.exists /\ temp_rows # <<>>
        /\ Len(out_file.rows) > Len(prior_out.rows)

====
